---------------------------- MODULE Spec2Model ----------------------------
(***************************************************************************)
(* A model of the ldap-go-lib client library: the connection lifecycle of  *)
(* Client (connect, dial, bind and the five execute operations), the      *)
(* error translator                                                        *)
(* handleLdapError, the group manager's membership reconciliation          *)
(* (Create / Get / Delete / AddMembers / RemoveMembers) and the user       *)
(* manager (GetAll / Get / Filter* / Create / Delete / Authenticate /      *)
(* SetNewPassword).                                                        *)
(*                                                                         *)
(* The directory server is the library's external collaborator.  It is    *)
(* modelled as an attribute store: an add creates an entry, a modify       *)
(* applies its changes in the order of the request (add = set union,       *)
(* delete = set difference), a delete removes the entry, and any round     *)
(* trip may be refused by the transport or the server with an error text   *)
(* (the "fault" of a call).  The store enforces no schema of its own, so   *)
(* whatever the member sets satisfy, they satisfy because of the library.  *)
(***************************************************************************)
EXTENDS Integers, Sequences, FiniteSets, TLC

VARIABLES
    config,        \* Client.Config: the connection details
    unitTesting,   \* Client.unitTesting: dial is skipped
    groups,        \* the directory: group entry DN -> its uniqueMember values
    users,         \* the directory: user entry DN -> its attributes
    ret,           \* the public call that has just returned, or Idle
    onlyDistinct,  \* history: every membership call so far named pairwise
                   \* distinct identifiers (after uppercasing)
    ldapClient,    \* Client.ldapClient: the transport connection in use
    conns,         \* every transport connection: who dialled it, its state
    pc,            \* per concurrent call: its position in the execute operation
    callOp,        \* per concurrent call: the execute operation it runs
    deferred,      \* per concurrent call: the receiver of the deferred Close
    used,          \* per concurrent call: the connections it acted on
    events,        \* per concurrent call: the transport calls it made
    callErr,       \* per concurrent call: the error it returned
    mpc,           \* per concurrent membership call: its position
    mcall,         \* per concurrent membership call: operation and arguments
    mread,         \* per concurrent membership call: the group it read
    translated     \* the last error text translated and the result

vars == <<config, unitTesting, groups, users, ret, onlyDistinct, ldapClient, conns,
          pc, callOp, deferred, used, events, callErr, mpc, mcall, mread,
          translated>>

dirVars  == <<groups, users, ret, onlyDistinct>>
connVars == <<ldapClient, conns, pc, callOp, deferred, used, events, callErr>>
membVars == <<mpc, mcall, mread>>

(***************************************************************************)
(* Bounds of the model.                                                    *)
(***************************************************************************)
MaxIds == 2        \* longest memberIds list of a sequential call
MaxConcIds == 1    \* longest memberIds list of an interleaved call
MaxErrLen == 3     \* most fragments in a protocol error text
NumCalls == 2      \* calls in flight at once on one Client

SeqsUpTo(S, n) == UNION {[1..k -> S] : k \in 0..n}

(***************************************************************************)
(* Constants of groups.go and client.go.                                   *)
(***************************************************************************)
noSuchUserGroupMemberCn ==
    <<"N", "O", "_", "S", "U", "C", "H", "_", "U", "S", "E", "R">>
userIdAttr == "uid"
CommonNameAttr == "cn"
OrganizationalUnitAttr == "ou"
ProtocolLdap == "ldap"
ProtocolLdaps == "ldaps"
validProtocols == {ProtocolLdap, ProtocolLdaps}

\* ldap.LDAPResultCodeMap: the descriptions of the result codes the
\* translator looks for.
InvalidCredentials == "Invalid Credentials"
InvalidDNSyntax == "Invalid DN Syntax"
InsufficientAccessRights == "Insufficient Access Rights"
EntryAlreadyExists == "Entry Already Exists"
NoSuchObject == "No Such Object"
NetworkError == "Network Error"

(***************************************************************************)
(* strings.ToUpper on an identifier, a sequence of characters.             *)
(***************************************************************************)
LowerChars == <<"a", "b", "c", "e", "h", "n", "o", "r", "s", "u">>
UpperChars == <<"A", "B", "C", "E", "H", "N", "O", "R", "S", "U">>

UpperChar(c) ==
    IF \E i \in 1..Len(LowerChars) : LowerChars[i] = c
    THEN UpperChars[CHOOSE i \in 1..Len(LowerChars) : LowerChars[i] = c]
    ELSE c

ToUpper(s) == [i \in 1..Len(s) |-> UpperChar(s[i])]

\* strings.TrimSpace on the names the model passes: only blanks trim away.
TrimSpace(s) == IF s \in {"", " ", "  "} THEN "" ELSE s

(***************************************************************************)
(* The application errors (go-utils errors.Error): code, status, message.  *)
(***************************************************************************)
NoErr == [code |-> "OK", status |-> 0, message |-> <<>>]
BadRequestError(msg) == [code |-> "BadRequest", status |-> 400, message |-> msg]
UnauthorizedError(msg) == [code |-> "Unauthorized", status |-> 401, message |-> msg]
ForbiddenError(msg) == [code |-> "Forbidden", status |-> 403, message |-> msg]
NotFoundError(msg) == [code |-> "NotFound", status |-> 404, message |-> msg]
ConflictError(msg) == [code |-> "Conflict", status |-> 409, message |-> msg]
InternalServerError(msg) ==
    [code |-> "InternalServerError", status |-> 500, message |-> msg]

(***************************************************************************)
(* Client.handleLdapError.  An error text is a sequence of fragments;      *)
(* strings.Contains(errStr, d) holds when d is one of them.  The switch    *)
(* takes the first case that matches.                                      *)
(***************************************************************************)
Contains(errStr, d) == \E i \in 1..Len(errStr) : errStr[i] = d

\* A faulty variant of handleLdapError: the first two cases change places.
handleLdapErrorSwapped(errStr) ==
    IF Contains(errStr, InsufficientAccessRights)
    THEN ForbiddenError(<<InsufficientAccessRights>>)
    ELSE IF Contains(errStr, InvalidCredentials) \/ Contains(errStr, InvalidDNSyntax)
    THEN UnauthorizedError(<<InvalidCredentials>>)
    ELSE IF Contains(errStr, EntryAlreadyExists)
    THEN BadRequestError(<<EntryAlreadyExists>>)
    ELSE IF Contains(errStr, NoSuchObject)
    THEN NotFoundError(<<NoSuchObject>>)
    ELSE InternalServerError(errStr)

\* Client.handleLdapError
handleLdapError(errStr) ==
    IF Contains(errStr, InvalidCredentials) \/ Contains(errStr, InvalidDNSyntax)
    THEN UnauthorizedError(<<InvalidCredentials>>)
    ELSE IF Contains(errStr, InsufficientAccessRights)
    THEN ForbiddenError(<<InsufficientAccessRights>>)
    ELSE IF Contains(errStr, EntryAlreadyExists)
    THEN BadRequestError(<<EntryAlreadyExists>>)
    ELSE IF Contains(errStr, NoSuchObject)
    THEN NotFoundError(<<NoSuchObject>>)
    ELSE InternalServerError(errStr)

(***************************************************************************)
(* Config and Client.validate (config.Validate lists the required fields   *)
(* that are empty, in declaration order).                                  *)
(***************************************************************************)
RequiredFields ==
    <<"Protocol", "Hostname", "Port", "BaseDN", "UserBaseDN", "GroupBaseDN",
      "BindUser", "BindPassword">>

testConfig ==
    [Protocol |-> "ldaps", Hostname |-> "ldap.company.com", Port |-> "636",
     BaseDN |-> "company", UserBaseDN |-> "ou=users,o=company",
     GroupBaseDN |-> "ou=projects,o=company", BindUser |-> "cn=root,o=company",
     BindPassword |-> "somePassword"]

\* A faulty variant of SetProtocol: an unknown protocol leaves the
\* unencrypted one.
SetProtocolDefaultingToLdap(cfg, protocol) ==
    IF protocol \in validProtocols
    THEN [cfg EXCEPT !.Protocol = protocol]
    ELSE [cfg EXCEPT !.Protocol = ProtocolLdap]

\* Client.SetProtocol
SetProtocol(cfg, protocol) ==
    IF protocol \in validProtocols
    THEN [cfg EXCEPT !.Protocol = protocol]
    ELSE [cfg EXCEPT !.Protocol = ProtocolLdaps]

\* NewClient: the configuration as given, with the protocol defaulted.
NewClientConfig(cfg) == SetProtocol(cfg, cfg.Protocol)

ConfigPool ==
    {NewClientConfig(testConfig),
     NewClientConfig([testConfig EXCEPT !.Hostname = "", !.BindPassword = ""])}

\* A faulty variant of MissingFields: it stops at the first empty field.
MissingFieldsFirstOnly(cfg) ==
    LET missing == SelectSeq(RequiredFields, LAMBDA f : cfg[f] = "")
    IN  IF missing = <<>> THEN missing ELSE <<missing[1]>>

MissingFields(cfg) ==
    SelectSeq(RequiredFields, LAMBDA f : cfg[f] = "")

validate(cfg) ==
    IF Len(MissingFields(cfg)) > 0
    THEN BadRequestError(<<"MissingMandatoryConfiguration">> \o MissingFields(cfg))
    ELSE NoErr

(***************************************************************************)
(* The faults of one public call: the transport or the server refuses one  *)
(* step (dial, bind or the protocol operation) of one of the call's round  *)
(* trips with an error text; the round trips before it succeed.  Step      *)
(* "empty" is not a refusal: the search of that round trip is answered     *)
(* without entries (what stands at the search base is not of the object    *)
(* class searched for).                                                    *)
(***************************************************************************)
NoFault == [trip |-> 0, step |-> "none", text |-> <<>>]

FaultAt(fault, trip, step) == fault.trip = trip /\ fault.step = step

(***************************************************************************)
(* The directory server.  A DN is a sequence of <<attribute, value>>       *)
(* components; the group subtree hangs under DirGroupBase.                 *)
(***************************************************************************)
DirGroupBase == <<"base", testConfig.GroupBaseDN>>
OrgUnits == <<"ou1", "ou2">>
GroupCns == <<"g1", "g2">>

Range(s) == {s[i] : i \in 1..Len(s)}

IsSuffix(base, dn) ==
    /\ Len(base) <= Len(dn)
    /\ SubSeq(dn, Len(dn) - Len(base) + 1, Len(dn)) = base

OuDN(ou) == <<<<"ou", ou>>, DirGroupBase>>
GroupDN(cn, ou) == <<<<"cn", cn>>, <<"ou", ou>>, DirGroupBase>>

\* Every DN a group entry can have, in the order the server answers in.
AllGroupDNs ==
    [k \in 1..(Len(OrgUnits) * Len(GroupCns)) |->
        GroupDN(GroupCns[((k - 1) % Len(GroupCns)) + 1],
                OrgUnits[((k - 1) \div Len(GroupCns)) + 1])]

EntryExists(dir, dn) ==
    \/ dn = <<DirGroupBase>>
    \/ \E i \in 1..Len(OrgUnits) : dn = OuDN(OrgUnits[i])
    \/ dn \in DOMAIN dir

Refused(text, dir) == [failed |-> TRUE, text |-> text, entries |-> <<>>, dir |-> dir]
Served(entries, dir) == [failed |-> FALSE, text |-> <<>>, entries |-> entries, dir |-> dir]

\* The changes of a modify request, applied in order: add, delete, and the
\* replace of the protocol, which the managers never queue.
RECURSIVE ApplyChanges(_, _)
ApplyChanges(values, changes) ==
    IF changes = <<>> THEN values
    ELSE ApplyChanges(
            IF Head(changes).op = "add"
            THEN values \cup Range(Head(changes).vals)
            ELSE IF Head(changes).op = "replace"
            THEN Range(Head(changes).vals)
            ELSE values \ Range(Head(changes).vals),
            Tail(changes))

ServerSearch(dir, sr) ==
    IF ~EntryExists(dir, sr.base)
    THEN Refused(<<"LDAP Result Code 32", NoSuchObject>>, dir)
    ELSE IF sr.filter = "organizationalUnit"
    THEN Served(
            IF sr.base = <<DirGroupBase>>
            THEN [i \in 1..Len(OrgUnits) |->
                    [DN |-> OuDN(OrgUnits[i]), ou |-> OrgUnits[i]]]
            ELSE <<>>, dir)
    ELSE LET found == SelectSeq(AllGroupDNs,
                        LAMBDA dn : dn \in DOMAIN dir /\ IsSuffix(sr.base, dn))
         IN  Served([i \in 1..Len(found) |->
                        [DN |-> found[i], cn |-> found[i][1][2],
                         uniqueMember |-> dir[found[i]]]], dir)

ServerAdd(dir, ar) ==
    IF ar.dn \in DOMAIN dir
    THEN Refused(<<"LDAP Result Code 68", EntryAlreadyExists>>, dir)
    ELSE IF ~EntryExists(dir, Tail(ar.dn))
    THEN Refused(<<"LDAP Result Code 32", NoSuchObject>>, dir)
    ELSE Served(<<>>, [d \in DOMAIN dir \cup {ar.dn} |->
                        IF d = ar.dn THEN Range(ar.uniqueMember) ELSE dir[d]])

ServerModify(dir, mr) ==
    IF mr.dn \notin DOMAIN dir
    THEN Refused(<<"LDAP Result Code 32", NoSuchObject>>, dir)
    ELSE Served(<<>>, [dir EXCEPT ![mr.dn] = ApplyChanges(@, mr.changes)])

ServerDel(dir, dr) ==
    IF dr.dn \notin DOMAIN dir
    THEN Refused(<<"LDAP Result Code 32", NoSuchObject>>, dir)
    ELSE Served(<<>>, [d \in DOMAIN dir \ {dr.dn} |-> dir[d]])

Server(dir, req) ==
    IF req.kind = "search" THEN ServerSearch(dir, req)
    ELSE IF req.kind = "add" THEN ServerAdd(dir, req)
    ELSE IF req.kind = "modify" THEN ServerModify(dir, req)
    ELSE IF req.kind = "del" THEN ServerDel(dir, req)
    ELSE Served(<<>>, dir)

(***************************************************************************)
(* Client.connect and the execute operations, for a call that runs alone.  *)
(* log lists the transport calls made, in order.  A handler is written as  *)
(* a chain of operators, one per statement that can return early: each     *)
(* takes what the statements before it produced.                           *)
(***************************************************************************)
\* A faulty variant of connectValidated: the outcome of bind is dropped.
connectValidatedBindUnchecked(v, ut, fault, trip) ==
    IF v # NoErr THEN [err |-> v, log |-> <<>>]
    ELSE IF ~ut /\ FaultAt(fault, trip, "dial")
    THEN [err |-> handleLdapError(fault.text), log |-> <<"dial">>]
    ELSE [err |-> NoErr, log |-> (IF ut THEN <<>> ELSE <<"dial">>) \o <<"bind">>]

\* connect, after validate returned v: dial unless unitTesting, then bind.
connectValidated(v, ut, fault, trip) ==
    IF v # NoErr THEN [err |-> v, log |-> <<>>]
    ELSE IF ~ut /\ FaultAt(fault, trip, "dial")
    THEN [err |-> handleLdapError(fault.text), log |-> <<"dial">>]
    ELSE [err |-> IF FaultAt(fault, trip, "bind")
                  THEN handleLdapError(fault.text) ELSE NoErr,
          log |-> (IF ut THEN <<>> ELSE <<"dial">>) \o <<"bind">>]

connect(cfg, ut, fault, trip) == connectValidated(validate(cfg), ut, fault, trip)

\* The operation of an execute operation has answered r: translate its
\* error; the deferred Close runs.
doLDAPAnswered(c, r, req) ==
    [err |-> IF r.failed THEN handleLdapError(r.text) ELSE NoErr,
     entries |-> r.entries, dir |-> r.dir,
     log |-> c.log \o <<req.kind, "close">>]

\* A faulty variant of doLDAPConnected: a failed connect is tried once more.
doLDAPConnectedRetrying(c, dir, req, fault, trip) ==
    IF c.err # NoErr
    THEN [err |-> c.err, entries |-> <<>>, dir |-> dir, log |-> c.log \o c.log]
    ELSE doLDAPAnswered(c, IF FaultAt(fault, trip, "op")
                           THEN Refused(fault.text, dir)
                           ELSE IF FaultAt(fault, trip, "empty") /\ req.kind = "search"
                           THEN Served(<<>>, dir)
                           ELSE Server(dir, req), req)

\* An execute operation, after connect returned c: return its error, or
\* defer Close and run the operation.
doLDAPConnected(c, dir, req, fault, trip) ==
    IF c.err # NoErr
    THEN [err |-> c.err, entries |-> <<>>, dir |-> dir, log |-> c.log]
    ELSE doLDAPAnswered(c, IF FaultAt(fault, trip, "op")
                           THEN Refused(fault.text, dir)
                           ELSE IF FaultAt(fault, trip, "empty") /\ req.kind = "search"
                           THEN Served(<<>>, dir)
                           ELSE Server(dir, req), req)

\* The body the execute operations share.
doLDAP(cfg, ut, dir, req, fault, trip) ==
    doLDAPConnected(connect(cfg, ut, fault, trip), dir, req, fault, trip)

doLDAPSearch(cfg, ut, dir, sr, fault, trip) == doLDAP(cfg, ut, dir, sr, fault, trip)
doLDAPAdd(cfg, ut, dir, ar, fault, trip) == doLDAP(cfg, ut, dir, ar, fault, trip)
doLDAPDelete(cfg, ut, dir, dr, fault, trip) == doLDAP(cfg, ut, dir, dr, fault, trip)
doLDAPModify(cfg, ut, dir, mr, fault, trip) == doLDAP(cfg, ut, dir, mr, fault, trip)

(***************************************************************************)
(* organizationalUnitsManager.GetAll.  next is the index of the call's     *)
(* next round trip.                                                        *)
(***************************************************************************)
ouSearchRequest(cfg) ==
    [kind |-> "search", base |-> <<<<"base", cfg.GroupBaseDN>>>>,
     scope |-> "one", filter |-> "organizationalUnit"]

ouParseSearchResult(r, trip) ==
    [err |-> r.err,
     ous |-> IF r.err # NoErr THEN <<>>
             ELSE [i \in 1..Len(r.entries) |-> r.entries[i].ou],
     log |-> r.log, next |-> trip + 1]

OrganizationalUnitsGetAll(cfg, ut, dir, fault, trip) ==
    ouParseSearchResult(
        doLDAPSearch(cfg, ut, dir, ouSearchRequest(cfg), fault, trip), trip)

(***************************************************************************)
(* groupsManager: request construction.                                    *)
(***************************************************************************)
\* getDN keeping the common name when no organizational unit is given.
getDNKeepingCn(cfg, cn, ou) ==
    IF cn # "" /\ ou # ""
    THEN <<<<CommonNameAttr, cn>>, <<OrganizationalUnitAttr, ou>>,
           <<"base", cfg.GroupBaseDN>>>>
    ELSE IF cn = "" /\ ou # ""
    THEN <<<<OrganizationalUnitAttr, ou>>, <<"base", cfg.GroupBaseDN>>>>
    ELSE IF cn # ""
    THEN <<<<CommonNameAttr, cn>>, <<"base", cfg.GroupBaseDN>>>>
    ELSE <<<<"base", cfg.GroupBaseDN>>>>

getDN(cfg, cn, ou) ==
    IF cn # "" /\ ou # ""
    THEN <<<<CommonNameAttr, cn>>, <<OrganizationalUnitAttr, ou>>,
           <<"base", cfg.GroupBaseDN>>>>
    ELSE IF cn = "" /\ ou # ""
    THEN <<<<OrganizationalUnitAttr, ou>>, <<"base", cfg.GroupBaseDN>>>>
    ELSE <<<<"base", cfg.GroupBaseDN>>>>

getUniqueMemberDn(cfg, memberId) ==
    <<<<userIdAttr, memberId>>, <<"base", cfg.UserBaseDN>>>>

getSearchRequest(cfg, cn, ou, searchFilter) ==
    [kind |-> "search", base |-> getDN(cfg, cn, ou), scope |-> "sub",
     filter |-> searchFilter]

\* A faulty variant of getAddRequest: the identifiers are not uppercased.
getAddRequestAsGiven(cfg, cn, ou, memberIds) ==
    [kind |-> "add", dn |-> getDN(cfg, cn, ou), cn |-> cn,
     uniqueMember |-> [i \in 1..Len(memberIds) |->
                          getUniqueMemberDn(cfg, memberIds[i])]]

getAddRequest(cfg, cn, ou, memberIds) ==
    [kind |-> "add", dn |-> getDN(cfg, cn, ou), cn |-> cn,
     uniqueMember |-> [i \in 1..Len(memberIds) |->
                          getUniqueMemberDn(cfg, ToUpper(memberIds[i]))]]

getModifyRequest(cfg, cn, ou) ==
    [kind |-> "modify", dn |-> getDN(cfg, cn, ou), changes |-> <<>>]

getDeleteRequest(cfg, cn, ou) == [kind |-> "del", dn |-> getDN(cfg, cn, ou)]

\* ModifyRequest.Add / ModifyRequest.Delete: one more change on the request.
mrAdd(mr, vals) ==
    [mr EXCEPT !.changes = Append(@, [op |-> "add", vals |-> vals])]
mrDelete(mr, vals) ==
    [mr EXCEPT !.changes = Append(@, [op |-> "delete", vals |-> vals])]

parseSearchResult(entries) ==
    [i \in 1..Len(entries) |->
        [Dn |-> entries[i].DN,
         Ou |-> IF entries[i].DN[2][1] = OrganizationalUnitAttr
                THEN entries[i].DN[2][2] ELSE "",
         Cn |-> entries[i].cn,
         Members |-> entries[i].uniqueMember]]

(***************************************************************************)
(* groupsManager: validation.                                              *)
(***************************************************************************)
\* validateGroupOu, after OrganizationalUnits.GetAll returned o.
validateGroupOuListed(ou, o) ==
    [err |-> IF o.err # NoErr THEN o.err
             ELSE IF ou \notin Range(o.ous)
             THEN BadRequestError(<<"Invalid organizational unit", ou>> \o o.ous)
             ELSE NoErr,
     log |-> o.log, next |-> o.next]

validateGroupOu(cfg, ut, dir, ou, fault, trip) ==
    validateGroupOuListed(ou, OrganizationalUnitsGetAll(cfg, ut, dir, fault, trip))

missingGroupParams(cn, ou) ==
    (IF TrimSpace(cn) = "" THEN <<CommonNameAttr>> ELSE <<>>)
    \o (IF TrimSpace(ou) = "" THEN <<OrganizationalUnitAttr>> ELSE <<>>)

validateGroup(cfg, ut, dir, cn, ou, fault, trip) ==
    IF Len(missingGroupParams(cn, ou)) > 0
    THEN [err |-> BadRequestError(<<"MissingMandatoryParameter">>
                                  \o missingGroupParams(cn, ou)),
          log |-> <<>>, next |-> trip]
    ELSE validateGroupOu(cfg, ut, dir, ou, fault, trip)

(***************************************************************************)
(* groupsManager.Get, Create, Delete.  Each yields the error returned, the *)
(* directory afterwards, the transport calls made and the requests sent.   *)
(***************************************************************************)
groupNotFound(cn, ou) == NotFoundError(<<"Group was not found", cn, ou>>)
groupAlreadyExists(cn, ou) == ConflictError(<<"Group already exists", cn, ou>>)

\* Get, after the search returned r.
GetSearched(cn, ou, v, r) ==
    IF r.err # NoErr
    THEN [err |-> IF r.err.status = 404 THEN groupNotFound(cn, ou) ELSE r.err,
          result |-> <<>>, log |-> v.log \o r.log, next |-> v.next + 1]
    ELSE [err |-> NoErr, result |-> parseSearchResult(r.entries),
          log |-> v.log \o r.log, next |-> v.next + 1]

\* Get, after the organizational unit check returned v.
GetValidated(cfg, ut, dir, cn, ou, fault, v) ==
    IF v.err # NoErr
    THEN [err |-> v.err, result |-> <<>>, log |-> v.log, next |-> v.next]
    ELSE GetSearched(cn, ou, v,
            doLDAPSearch(cfg, ut, dir,
                         getSearchRequest(cfg, cn, ou, "groupOfUniqueNames"),
                         fault, v.next))

Get(cfg, ut, dir, cn, ou, fault, trip) ==
    GetValidated(cfg, ut, dir, cn, ou, fault,
        IF ou # "" THEN validateGroupOu(cfg, ut, dir, ou, fault, trip)
        ELSE [err |-> NoErr, log |-> <<>>, next |-> trip])

GetAll(cfg, ut, dir, fault, trip) == Get(cfg, ut, dir, "", "", fault, trip)

\* A faulty variant of CreateAdded: the error of the add is returned as it is.
CreateAddedAsTranslated(cn, ou, v, ar, a) ==
    [err |-> a.err, dir |-> a.dir, log |-> v.log \o a.log, sent |-> <<ar>>]

\* Create, after the add returned a.
CreateAdded(cn, ou, v, ar, a) ==
    [err |-> IF a.err # NoErr
             THEN IF a.err.status = 400 THEN groupAlreadyExists(cn, ou) ELSE a.err
             ELSE NoErr,
     dir |-> a.dir, log |-> v.log \o a.log, sent |-> <<ar>>]

CreateRequested(cfg, ut, dir, cn, ou, fault, v, ar) ==
    CreateAdded(cn, ou, v, ar, doLDAPAdd(cfg, ut, dir, ar, fault, v.next))

\* Create, after validateGroup returned v.
CreateValidated(cfg, ut, dir, cn, ou, memberIds, fault, v) ==
    IF v.err # NoErr
    THEN [err |-> v.err, dir |-> dir, log |-> v.log, sent |-> <<>>]
    ELSE CreateRequested(cfg, ut, dir, cn, ou, fault, v,
            getAddRequest(cfg, cn, ou,
                IF Len(memberIds) = 0
                THEN Append(memberIds, noSuchUserGroupMemberCn)
                ELSE memberIds))

Create(cfg, ut, dir, cn, ou, memberIds, fault) ==
    CreateValidated(cfg, ut, dir, cn, ou, memberIds, fault,
                    validateGroup(cfg, ut, dir, cn, ou, fault, 1))

\* Delete, after the delete returned d.
DeleteDone(cn, ou, v, dr, d) ==
    [err |-> IF d.err # NoErr
             THEN IF d.err.status = 404 THEN groupNotFound(cn, ou) ELSE d.err
             ELSE NoErr,
     dir |-> d.dir, log |-> v.log \o d.log, sent |-> <<dr>>]

DeleteRequested(cfg, ut, dir, cn, ou, fault, v, dr) ==
    DeleteDone(cn, ou, v, dr, doLDAPDelete(cfg, ut, dir, dr, fault, v.next))

\* Delete, after validateGroup returned v.
DeleteValidated(cfg, ut, dir, cn, ou, fault, v) ==
    IF v.err # NoErr
    THEN [err |-> v.err, dir |-> dir, log |-> v.log, sent |-> <<>>]
    ELSE DeleteRequested(cfg, ut, dir, cn, ou, fault, v,
                         getDeleteRequest(cfg, cn, ou))

Delete(cfg, ut, dir, cn, ou, fault) ==
    DeleteValidated(cfg, ut, dir, cn, ou, fault,
                    validateGroup(cfg, ut, dir, cn, ou, fault, 1))

(***************************************************************************)
(* groupsManager.AddMembers and RemoveMembers: the membership              *)
(* reconciliation.  Members is the uniqueMember value set read from the    *)
(* directory; the lists built by the loops keep every occurrence.          *)
(***************************************************************************)
\* result[0] on an empty search result: the call aborts.
Panicked == [code |-> "panic", status |-> 0 - 1, message |-> <<"index out of range">>]

memberDns(cfg, memberIds) ==
    [i \in 1..Len(memberIds) |-> getUniqueMemberDn(cfg, ToUpper(memberIds[i]))]

\* AddMembers, the loop: the requested DNs that are not members yet.
membersToAdd(cfg, members, memberIds) ==
    SelectSeq(memberDns(cfg, memberIds), LAMBDA d : d \notin members)

\* Faulty variants of the condition below: the members about to be added are
\* forgotten; the threshold is one too high.
addRemovesSentinelIgnoringAdded(nMembers, nAdded) == nMembers >= 2
addRemovesSentinelAboveTwo(nMembers, nAdded) == nMembers + nAdded > 2

\* AddMembers, the condition under which the sentinel's removal is queued.
addRemovesSentinel(nMembers, nAdded) == nMembers + nAdded >= 2

\* A faulty variant of addMembersChanges: the removal of the sentinel is
\* queued before the additions.
addMembersChangesRemovalFirst(cfg, mr, nMembers, uniqueMembers) ==
    IF addRemovesSentinel(nMembers, Len(uniqueMembers))
    THEN IF Len(uniqueMembers) > 0
         THEN mrAdd(mrDelete(mr, <<getUniqueMemberDn(cfg, noSuchUserGroupMemberCn)>>),
                    uniqueMembers)
         ELSE mrDelete(mr, <<getUniqueMemberDn(cfg, noSuchUserGroupMemberCn)>>)
    ELSE IF Len(uniqueMembers) > 0 THEN mrAdd(mr, uniqueMembers) ELSE mr

\* AddMembers, the two conditional changes on the modify request mr.
addMembersChanges(cfg, mr, nMembers, uniqueMembers) ==
    IF addRemovesSentinel(nMembers, Len(uniqueMembers))
    THEN mrDelete(IF Len(uniqueMembers) > 0 THEN mrAdd(mr, uniqueMembers) ELSE mr,
                  <<getUniqueMemberDn(cfg, noSuchUserGroupMemberCn)>>)
    ELSE IF Len(uniqueMembers) > 0 THEN mrAdd(mr, uniqueMembers) ELSE mr

AddMembersRequest(cfg, cn, ou, members, memberIds) ==
    addMembersChanges(cfg, getModifyRequest(cfg, cn, ou), Cardinality(members),
                      membersToAdd(cfg, members, memberIds))

\* RemoveMembers, the loop: the requested DNs that are members.
membersToRemove(cfg, members, memberIds) ==
    SelectSeq(memberDns(cfg, memberIds), LAMBDA d : d \in members)

\* A faulty variant of the condition below: off by one.
removeAddsSentinelOffByOne(nMembers, nRemoved) == nMembers - nRemoved = 1

\* RemoveMembers, the condition under which the sentinel's addition is queued.
removeAddsSentinel(nMembers, nRemoved) == nMembers - nRemoved = 0

\* A faulty variant of removeMembersChanges: the removal is queued as the
\* replacement of the values of the attribute by the sentinel.
removeMembersChangesReplacing(cfg, mr, nMembers, uniqueMembers) ==
    IF Len(uniqueMembers) > 0
    THEN [mr EXCEPT !.changes = Append(@,
            [op |-> "replace",
             vals |-> <<getUniqueMemberDn(cfg, ToUpper(noSuchUserGroupMemberCn))>>])]
    ELSE mr

\* RemoveMembers, the two conditional changes on the modify request mr.
removeMembersChanges(cfg, mr, nMembers, uniqueMembers) ==
    IF removeAddsSentinel(nMembers, Len(uniqueMembers))
    THEN mrAdd(IF Len(uniqueMembers) > 0 THEN mrDelete(mr, uniqueMembers) ELSE mr,
               <<getUniqueMemberDn(cfg, ToUpper(noSuchUserGroupMemberCn))>>)
    ELSE IF Len(uniqueMembers) > 0 THEN mrDelete(mr, uniqueMembers) ELSE mr

RemoveMembersRequest(cfg, cn, ou, members, memberIds) ==
    removeMembersChanges(cfg, getModifyRequest(cfg, cn, ou), Cardinality(members),
                         membersToRemove(cfg, members, memberIds))

\* AddMembers / RemoveMembers, after the modify returned m.
membersModified(v, g, mr, m) ==
    [err |-> m.err, dir |-> m.dir, log |-> v.log \o g.log \o m.log,
     sent |-> <<mr>>]

membersRequested(cfg, ut, dir, fault, v, g, mr) ==
    membersModified(v, g, mr, doLDAPModify(cfg, ut, dir, mr, fault, g.next))

\* A faulty variant of AddMembersFetched: after a failed Get the modify is
\* built for a group without members, and sent.
AddMembersFetchedOrNot(cfg, ut, dir, cn, ou, memberIds, fault, v, g) ==
    membersRequested(cfg, ut, dir, fault, v, g,
        AddMembersRequest(cfg, cn, ou,
            IF g.err # NoErr \/ Len(g.result) = 0 THEN {} ELSE g.result[1].Members,
            memberIds))

\* AddMembers, after Get returned g.
AddMembersFetched(cfg, ut, dir, cn, ou, memberIds, fault, v, g) ==
    IF g.err # NoErr
    THEN [err |-> g.err, dir |-> dir, log |-> v.log \o g.log, sent |-> <<>>]
    ELSE IF Len(g.result) = 0
    THEN [err |-> Panicked, dir |-> dir, log |-> v.log \o g.log, sent |-> <<>>]
    ELSE membersRequested(cfg, ut, dir, fault, v, g,
            AddMembersRequest(cfg, cn, ou, g.result[1].Members, memberIds))

\* AddMembers, after validateGroup returned v.
AddMembersValidated(cfg, ut, dir, cn, ou, memberIds, fault, v) ==
    IF v.err # NoErr
    THEN [err |-> v.err, dir |-> dir, log |-> v.log, sent |-> <<>>]
    ELSE AddMembersFetched(cfg, ut, dir, cn, ou, memberIds, fault, v,
                           Get(cfg, ut, dir, cn, ou, fault, v.next))

AddMembers(cfg, ut, dir, cn, ou, memberIds, fault) ==
    AddMembersValidated(cfg, ut, dir, cn, ou, memberIds, fault,
                        validateGroup(cfg, ut, dir, cn, ou, fault, 1))

\* RemoveMembers, after Get returned g.
RemoveMembersFetched(cfg, ut, dir, cn, ou, memberIds, fault, v, g) ==
    IF g.err # NoErr
    THEN [err |-> g.err, dir |-> dir, log |-> v.log \o g.log, sent |-> <<>>]
    ELSE IF Len(g.result) = 0
    THEN [err |-> Panicked, dir |-> dir, log |-> v.log \o g.log, sent |-> <<>>]
    ELSE membersRequested(cfg, ut, dir, fault, v, g,
            RemoveMembersRequest(cfg, cn, ou, g.result[1].Members, memberIds))

\* RemoveMembers, after validateGroup returned v.
RemoveMembersValidated(cfg, ut, dir, cn, ou, memberIds, fault, v) ==
    IF v.err # NoErr
    THEN [err |-> v.err, dir |-> dir, log |-> v.log, sent |-> <<>>]
    ELSE RemoveMembersFetched(cfg, ut, dir, cn, ou, memberIds, fault, v,
                              Get(cfg, ut, dir, cn, ou, fault, v.next))

RemoveMembers(cfg, ut, dir, cn, ou, memberIds, fault) ==
    RemoveMembersValidated(cfg, ut, dir, cn, ou, memberIds, fault,
                           validateGroup(cfg, ut, dir, cn, ou, fault, 1))

(***************************************************************************)
(* The inputs of the public calls.                                         *)
(***************************************************************************)
MemberIdPool == {<<"a">>, <<"A">>, <<"b">>, noSuchUserGroupMemberCn}

\* (cn, ou) as passed to Create, Delete, AddMembers and RemoveMembers.
KeyPool == {<<"g1", "ou1">>, <<"g2", "ou1">>, <<" ", "">>, <<"g1", "ou9">>}
\* (cn, ou) as passed to Get.
GetKeyPool == KeyPool \cup {<<"", "">>, <<"", "ou1">>, <<"g1", "">>}

\* A call makes at most four round trips (AddMembers: two organizational
\* unit lookups, the group read, the modify).  Every fault: a step of a round
\* trip refused.
AllFaults ==
    {NoFault}
    \cup {[trip |-> t, step |-> "dial", text |-> <<"LDAP Result Code 200", NetworkError>>] :
            t \in 1..4}
    \cup {[trip |-> t, step |-> "bind", text |-> <<"LDAP Result Code 49", InvalidCredentials>>] :
            t \in 1..4}
    \cup {[trip |-> t, step |-> "op",
           text |-> <<"LDAP Result Code 50", InsufficientAccessRights>>] : t \in 1..4}
    \cup {[trip |-> t, step |-> "empty", text |-> <<>>] : t \in 1..4}

\* The faults of the sequential specification: the operation of a round trip
\* refused.  (A refused dial or bind leaves the directory as a refused
\* operation does; the connection lifecycle has a specification of its own.)
FaultPool == {f \in AllFaults : f.step \in {"none", "op"}}

Distinct(memberIds) ==
    \A i, j \in 1..Len(memberIds) :
        i # j => ToUpper(memberIds[i]) # ToUpper(memberIds[j])

Idle == [op |-> "idle"]

(***************************************************************************)
(* The sequential specification: one client, public group calls one at a   *)
(* time.  Call* runs a whole handler; Return hands its outcome to the      *)
(* caller.                                                                 *)
(***************************************************************************)
NoDir == [d \in {} |-> {}]

\* The variables of the other specifications, at rest.
ConnAtRest ==
    /\ ldapClient = 1
    /\ conns = <<[by |-> 0, open |-> TRUE]>>
    /\ pc = [p \in {} |-> "idle"]
    /\ callOp = [p \in {} |-> "none"]
    /\ deferred = [p \in {} |-> 0]
    /\ used = [p \in {} |-> {}]
    /\ events = [p \in {} |-> <<>>]
    /\ callErr = [p \in {} |-> NoErr]

MembAtRest ==
    /\ mpc = [p \in {} |-> "idle"]
    /\ mcall = [p \in {} |-> Idle]
    /\ mread = [p \in {} |-> {}]

DirAtRest ==
    /\ groups = NoDir
    /\ users = NoDir
    /\ ret = Idle
    /\ onlyDistinct = TRUE

InitOther == ConnAtRest /\ MembAtRest /\ translated = Idle

Init ==
    /\ config \in ConfigPool
    /\ unitTesting \in BOOLEAN
    /\ groups = NoDir
    /\ users = NoDir
    /\ ret = Idle
    /\ onlyDistinct = TRUE
    /\ InitOther

\* The handler of a public call has produced r: the directory is as it
\* left it and the caller holds the outcome.
Returns(op, key, memberIds, r, result) ==
    /\ groups' = r.dir
    /\ ret' = [op |-> op, cn |-> key[1], ou |-> key[2], memberIds |-> memberIds,
               err |-> r.err, before |-> groups, log |-> r.log,
               sent |-> r.sent, result |-> result]
    /\ onlyDistinct' = (onlyDistinct /\ Distinct(memberIds))
    /\ UNCHANGED users

CallCreate ==
    /\ ret = Idle
    /\ \E key \in KeyPool, memberIds \in SeqsUpTo(MemberIdPool, MaxIds), fault \in FaultPool :
        Returns("Create", key, memberIds,
                Create(config, unitTesting, groups, key[1], key[2], memberIds, fault),
                <<>>)
    /\ UNCHANGED <<config, unitTesting, connVars, membVars, translated>>

CallAddMembers ==
    /\ ret = Idle
    /\ \E key \in KeyPool, memberIds \in SeqsUpTo(MemberIdPool, MaxIds), fault \in FaultPool :
        Returns("AddMembers", key, memberIds,
                AddMembers(config, unitTesting, groups, key[1], key[2], memberIds, fault),
                <<>>)
    /\ UNCHANGED <<config, unitTesting, connVars, membVars, translated>>

CallRemoveMembers ==
    /\ ret = Idle
    /\ \E key \in KeyPool, memberIds \in SeqsUpTo(MemberIdPool, MaxIds), fault \in FaultPool :
        Returns("RemoveMembers", key, memberIds,
                RemoveMembers(config, unitTesting, groups, key[1], key[2], memberIds, fault),
                <<>>)
    /\ UNCHANGED <<config, unitTesting, connVars, membVars, translated>>

CallDelete ==
    /\ ret = Idle
    /\ \E key \in KeyPool, fault \in FaultPool :
        Returns("Delete", key, <<>>,
                Delete(config, unitTesting, groups, key[1], key[2], fault), <<>>)
    /\ UNCHANGED <<config, unitTesting, connVars, membVars, translated>>

\* Get changes nothing in the directory.
GetReturns(key, g) ==
    Returns("Get", key, <<>>,
            [err |-> g.err, dir |-> groups, log |-> g.log, sent |-> <<>>], g.result)

CallGet ==
    /\ ret = Idle
    /\ \E key \in GetKeyPool, fault \in FaultPool :
        GetReturns(key, Get(config, unitTesting, groups, key[1], key[2], fault, 1))
    /\ UNCHANGED <<config, unitTesting, connVars, membVars, translated>>

Return ==
    /\ ret # Idle
    /\ ret' = Idle
    /\ UNCHANGED <<config, unitTesting, groups, users, onlyDistinct, connVars, membVars,
                   translated>>

Next ==
    \/ CallCreate
    \/ CallAddMembers
    \/ CallRemoveMembers
    \/ CallDelete
    \/ CallGet
    \/ Return

Spec == Init /\ [][Next]_vars

(***************************************************************************)
(* Properties of the sequential specification.                             *)
(***************************************************************************)
Sentinel == <<<<"uid", noSuchUserGroupMemberCn>>, <<"base", config.UserBaseDN>>>>
MemberDnOf(id) == <<<<"uid", ToUpper(id)>>, <<"base", config.UserBaseDN>>>>
Addressed == <<<<"cn", ret.cn>>, <<"ou", ret.ou>>, <<"base", config.GroupBaseDN>>>>
Succeeded(op) == ret.op = op /\ ret.err = NoErr
RealMembers(members) == members \ {Sentinel}
\* The members of the addressed group before and after the call.
MembersBefore == ret.before[Addressed]
MembersAfter == groups[Addressed]
\* The modify request of the call queues the removal of the sentinel.
QueuesSentinelRemoval(mr) ==
    \E i \in 1..Len(mr.changes) :
        mr.changes[i].op = "delete" /\ Sentinel \in Range(mr.changes[i].vals)

\* C1: as long as every Create, AddMembers and RemoveMembers call so far
\* named pairwise distinct identifiers (after uppercasing), every group of
\* the directory has at least one member.
C1_GroupsNeverEmpty ==
    onlyDistinct => \A dn \in DOMAIN groups : groups[dn] # {}

\* A RemoveMembers call with distinct identifiers took the last real member
\* away and the sentinel stands in.
C1_Witness ==
    /\ onlyDistinct
    /\ Succeeded("RemoveMembers")
    /\ RealMembers(MembersBefore) # {}
    /\ MembersAfter = {Sentinel}

\* C5: after a successful Create(cn, ou, memberIds), Get(cn, ou) returns one
\* group whose member set is exactly the uppercased, qualified identifiers,
\* or exactly the sentinel when memberIds is empty.
C5_CreateThenGet ==
    Succeeded("Create") =>
        LET g == Get(config, unitTesting, groups, ret.cn, ret.ou, NoFault, 1)
        IN  /\ g.err = NoErr
            /\ Len(g.result) = 1
            /\ g.result[1].Cn = ret.cn
            /\ g.result[1].Members =
                 IF Len(ret.memberIds) = 0 THEN {Sentinel}
                 ELSE {MemberDnOf(ret.memberIds[i]) : i \in 1..Len(ret.memberIds)}

\* A group was created from two identifiers given in lower case.
C5_Witness ==
    /\ Succeeded("Create")
    /\ ret.memberIds = <<<<"a">>, <<"b">>>>
    /\ Cardinality(MembersAfter) = 2

\* C6: after a successful AddMembers, the same AddMembers call again
\* succeeds and leaves the directory as it is.
C6_AddMembersIdempotent ==
    Succeeded("AddMembers") =>
        LET again == AddMembers(config, unitTesting, groups, ret.cn, ret.ou,
                                ret.memberIds, NoFault)
        IN  again.err = NoErr /\ again.dir = groups

\* An AddMembers call added a member and removed the sentinel.
C6_Witness ==
    /\ Succeeded("AddMembers")
    /\ Sentinel \in MembersBefore
    /\ Sentinel \notin MembersAfter
    /\ MembersAfter \ MembersBefore # {}

\* C7 (as claimed): after a successful RemoveMembers, the same RemoveMembers
\* call again succeeds and leaves the directory as it is.
C7_RemoveMembersIdempotent ==
    Succeeded("RemoveMembers") =>
        LET again == RemoveMembers(config, unitTesting, groups, ret.cn, ret.ou,
                                   ret.memberIds, NoFault)
        IN  again.err = NoErr /\ again.dir = groups

\* Every real member read is named by exactly one entry of memberIds.
NamesRealMembersOnce ==
    \A m \in RealMembers(MembersBefore) :
        Cardinality({i \in 1..Len(ret.memberIds) : MemberDnOf(ret.memberIds[i]) = m}) = 1

\* C8 (as claimed): a successful RemoveMembers that names every real member
\* of the group once leaves exactly the sentinel.
C8_RemoveAllLeavesSentinel ==
    (Succeeded("RemoveMembers") /\ NamesRealMembersOnce) =>
        MembersAfter = {Sentinel}

ErrFragments ==
    {InvalidCredentials, InvalidDNSyntax, InsufficientAccessRights,
     EntryAlreadyExists, NoSuchObject, NetworkError, "LDAP Result Code 200"}

InitErr ==
    /\ config = NewClientConfig(testConfig)
    /\ unitTesting = FALSE
    /\ DirAtRest /\ ConnAtRest /\ MembAtRest
    /\ translated = Idle

Translate ==
    /\ \E errStr \in SeqsUpTo(ErrFragments, MaxErrLen) :
        translated' = [input |-> errStr, output |-> handleLdapError(errStr)]
    /\ UNCHANGED <<config, unitTesting, dirVars, connVars, membVars>>

NextErr == Translate

SpecErr == InitErr /\ [][NextErr]_vars

\* The error text translated mentions description d.
Mentions(d) == \E i \in 1..Len(translated.input) : translated.input[i] = d
MentionsCredentials == Mentions("Invalid Credentials") \/ Mentions("Invalid DN Syntax")

\* C10: every error text is translated, by the first rule that applies, to
\* Unauthorized/401 (Invalid Credentials or Invalid DN Syntax), else
\* Forbidden/403 (Insufficient Access Rights), else BadRequest/400 (Entry
\* Already Exists), else NotFound/404 (No Such Object), else
\* InternalServerError/500 with the original text; never to no error and
\* never to Conflict.
C10_TranslatorMapping ==
    translated # Idle =>
        LET out == translated.output
            kind == <<out.code, out.status>>
        IN  /\ out # NoErr
            /\ out.code # "Conflict" /\ out.status # 409
            /\ MentionsCredentials => kind = <<"Unauthorized", 401>>
            /\ (~MentionsCredentials /\ Mentions("Insufficient Access Rights"))
                 => kind = <<"Forbidden", 403>>
            /\ (/\ ~MentionsCredentials
                /\ ~Mentions("Insufficient Access Rights")
                /\ Mentions("Entry Already Exists"))
                 => kind = <<"BadRequest", 400>>
            /\ (/\ ~MentionsCredentials
                /\ ~Mentions("Insufficient Access Rights")
                /\ ~Mentions("Entry Already Exists")
                /\ Mentions("No Such Object"))
                 => kind = <<"NotFound", 404>>
            /\ (/\ ~MentionsCredentials
                /\ ~Mentions("Insufficient Access Rights")
                /\ ~Mentions("Entry Already Exists")
                /\ ~Mentions("No Such Object"))
                 => /\ kind = <<"InternalServerError", 500>>
                    /\ out.message = translated.input

\* A text that mentions Insufficient Access Rights before Invalid DN Syntax
\* was translated to Unauthorized: the order of the rules decided.
C10_Witness ==
    /\ translated # Idle
    /\ Len(translated.input) >= 2
    /\ translated.input[1] = "Insufficient Access Rights"
    /\ translated.input[2] = "Invalid DN Syntax"
    /\ translated.output.status = 401

(***************************************************************************)
(* The connection lifecycle with calls in flight at once.  Every call runs *)
(* one execute operation on the same Client; each read or write of the     *)
(* field Client.ldapClient and each transport call is a step.  Connection  *)
(* 1 is the one the Client was built with (or the one injected by a test   *)
(* harness), 0 is the nil connection a failed dial leaves in the field;    *)
(* the others are dialled.                                                 *)
(***************************************************************************)
Calls == 1..NumCalls
ExecuteOps == {"search", "add", "del", "modify", "passwordModify"}

DialRefused == <<"LDAP Result Code 200", NetworkError>>
BindRefused == <<"LDAP Result Code 49", InvalidCredentials>>
OpRefused == <<"LDAP Result Code 50", InsufficientAccessRights>>
ConnClosed == <<"LDAP Result Code 200", NetworkError, "ldap: connection closed">>

InitConn ==
    /\ config \in ConfigPool
    /\ unitTesting \in BOOLEAN
    /\ DirAtRest /\ MembAtRest
    /\ translated = Idle
    /\ ldapClient = 1
    /\ conns = <<[by |-> 0, open |-> TRUE]>>
    /\ pc = [p \in Calls |-> "idle"]
    /\ callOp = [p \in Calls |-> "none"]
    /\ deferred = [p \in Calls |-> 0]
    /\ used = [p \in Calls |-> {}]
    /\ events = [p \in Calls |-> <<>>]
    /\ callErr = [p \in Calls |-> NoErr]

\* A transport call on connection c can succeed only if c is open.
CanSucceed(c) == c # 0 /\ conns[c].open

\* The call enters an execute operation; connect validates the configuration.
StartCall(p) ==
    /\ pc[p] = "idle"
    /\ \E op \in ExecuteOps : callOp' = [callOp EXCEPT ![p] = op]
    /\ callErr' = [callErr EXCEPT ![p] = validate(config)]
    /\ pc' = [pc EXCEPT ![p] = IF validate(config) # NoErr THEN "done"
                               ELSE IF unitTesting THEN "bind" ELSE "dial"]
    /\ UNCHANGED <<config, unitTesting, dirVars, membVars, translated,
                   ldapClient, conns, deferred, used, events>>

\* dial: the outcome of ldap.Dial / ldap.DialTLS is stored in the field.
Dial(p) ==
    /\ pc[p] = "dial"
    /\ \/ /\ conns' = Append(conns, [by |-> p, open |-> TRUE])
          /\ ldapClient' = Len(conns) + 1
          /\ events' = [events EXCEPT ![p] = Append(@, "dial")]
          /\ pc' = [pc EXCEPT ![p] = "bind"]
          /\ UNCHANGED callErr
       \/ /\ ldapClient' = 0
          /\ callErr' = [callErr EXCEPT ![p] = handleLdapError(DialRefused)]
          /\ pc' = [pc EXCEPT ![p] = "done"]
          /\ UNCHANGED <<conns, events>>
    /\ UNCHANGED <<config, unitTesting, dirVars, membVars, translated,
                   callOp, deferred, used>>

\* bind: Bind on the connection the field holds now.  A failure returns
\* from connect, and from the execute operation, at once.
Bind(p) ==
    /\ pc[p] = "bind"
    /\ IF ldapClient = 0
       THEN /\ pc' = [pc EXCEPT ![p] = "panicked"]
            /\ UNCHANGED <<used, events, callErr>>
       ELSE /\ used' = [used EXCEPT ![p] = @ \cup {ldapClient}]
            /\ events' = [events EXCEPT ![p] = Append(@, "bind")]
            /\ \/ /\ CanSucceed(ldapClient)
                  /\ pc' = [pc EXCEPT ![p] = "defer"]
                  /\ UNCHANGED callErr
               \/ /\ callErr' = [callErr EXCEPT ![p] =
                        handleLdapError(IF CanSucceed(ldapClient)
                                        THEN BindRefused ELSE ConnClosed)]
                  /\ pc' = [pc EXCEPT ![p] = "done"]
    /\ UNCHANGED <<config, unitTesting, dirVars, membVars, translated,
                   ldapClient, conns, callOp, deferred>>

\* defer c.ldapClient.Close(): the receiver is the connection the field
\* holds when the defer statement runs.
Defer(p) ==
    /\ pc[p] = "defer"
    /\ deferred' = [deferred EXCEPT ![p] = ldapClient]
    /\ pc' = [pc EXCEPT ![p] = "exec"]
    /\ UNCHANGED <<config, unitTesting, dirVars, membVars, translated,
                   ldapClient, conns, callOp, used, events, callErr>>

\* The operation, on the connection the field holds now.
Exec(p) ==
    /\ pc[p] = "exec"
    /\ IF ldapClient = 0
       THEN /\ events' = [events EXCEPT ![p] = Append(@, "panic")]
            /\ UNCHANGED <<used, callErr>>
       ELSE /\ used' = [used EXCEPT ![p] = @ \cup {ldapClient}]
            /\ events' = [events EXCEPT ![p] = Append(@, callOp[p])]
            /\ \/ /\ CanSucceed(ldapClient)
                  /\ UNCHANGED callErr
               \/ callErr' = [callErr EXCEPT ![p] =
                        handleLdapError(IF CanSucceed(ldapClient)
                                        THEN OpRefused ELSE ConnClosed)]
    /\ pc' = [pc EXCEPT ![p] = "close"]
    /\ UNCHANGED <<config, unitTesting, dirVars, membVars, translated,
                   ldapClient, conns, callOp, deferred>>

\* The deferred Close runs on the receiver captured by Defer, and the call
\* returns.
Close(p) ==
    /\ pc[p] = "close"
    /\ IF deferred[p] = 0
       THEN /\ pc' = [pc EXCEPT ![p] = "panicked"]
            /\ UNCHANGED <<conns, used, events>>
       ELSE /\ conns' = [conns EXCEPT ![deferred[p]].open = FALSE]
            /\ used' = [used EXCEPT ![p] = @ \cup {deferred[p]}]
            /\ events' = [events EXCEPT ![p] = Append(@, "close")]
            /\ pc' = [pc EXCEPT ![p] =
                        IF "panic" \in Range(events[p]) THEN "panicked" ELSE "done"]
    /\ UNCHANGED <<config, unitTesting, dirVars, membVars, translated,
                   ldapClient, callOp, deferred, callErr>>

NextConn ==
    \E p \in Calls :
        \/ StartCall(p)
        \/ Dial(p)
        \/ Bind(p)
        \/ Defer(p)
        \/ Exec(p)
        \/ Close(p)

SpecConn == InitConn /\ [][NextConn]_vars

\* The call got as far as having a transport connection: its dial
\* succeeded, or the harness injected a client and the call went on to use it.
HadConnection(p) ==
    IF unitTesting THEN pc[p] # "idle" /\ validate(config) = NoErr
    ELSE "dial" \in Range(events[p])

\* C3 (as claimed): a call that had a transport connection has invoked Close
\* by the time it returns, whether the operation succeeded, the operation
\* failed or the bind failed.
C3_CloseOnEveryExit ==
    \A p \in Calls :
        (pc[p] = "done" /\ HadConnection(p)) => "close" \in Range(events[p])

\* C4 (as claimed): with real dialling, a call binds, executes and closes
\* only connections it dialled itself, and when all calls have returned
\* without error every dialled connection is closed.
C4_OwnConnectionOnly ==
    ~unitTesting =>
        /\ \A p \in Calls : \A c \in used[p] : conns[c].by = p
        /\ (\A p \in Calls : pc[p] = "done" /\ callErr[p] = NoErr)
             => \A c \in 2..Len(conns) : ~conns[c].open

(***************************************************************************)
(* Membership calls in flight at once on one group.  AddMembers and        *)
(* RemoveMembers read the group (validateGroup, Get) and then send the     *)
(* modify built from what they read: two steps, between which the other    *)
(* call may act.  Every call names pairwise distinct identifiers.          *)
(***************************************************************************)
ConcKey == <<"g1", "ou1">>
ConcIdPool == {<<"a">>, <<"b">>, noSuchUserGroupMemberCn}
ConcIdLists(n) == {ids \in SeqsUpTo(ConcIdPool, n) : Distinct(ids)}

\* The group as a finished Create left it.
CreatedGroups ==
    {Create(NewClientConfig(testConfig), FALSE, NoDir, ConcKey[1], ConcKey[2],
            ids, NoFault).dir : ids \in ConcIdLists(MaxIds)}

InitConc ==
    /\ config = NewClientConfig(testConfig)
    /\ unitTesting = FALSE
    /\ groups \in CreatedGroups
    /\ users = NoDir
    /\ ret = Idle
    /\ onlyDistinct = TRUE
    /\ ConnAtRest
    /\ translated = Idle
    /\ mpc = [p \in Calls |-> "idle"]
    /\ mcall = [p \in Calls |-> Idle]
    /\ mread = [p \in Calls |-> {}]

\* AddMembers / RemoveMembers up to group := result[0], given what
\* validateGroup (v) and Get (g) returned.
membersFetched(v, g) ==
    IF v.err # NoErr THEN [err |-> v.err, members |-> {}]
    ELSE IF g.err # NoErr THEN [err |-> g.err, members |-> {}]
    ELSE IF Len(g.result) = 0 THEN [err |-> Panicked, members |-> {}]
    ELSE [err |-> NoErr, members |-> g.result[1].Members]

fetchMembers(cfg, ut, dir, cn, ou) ==
    membersFetched(validateGroup(cfg, ut, dir, cn, ou, NoFault, 1),
                   Get(cfg, ut, dir, cn, ou, NoFault, 2))

\* The call has read the group: it goes on to the modify, or returns the
\* error.
Fetched(p, op, memberIds, f) ==
    /\ mpc' = [mpc EXCEPT ![p] = IF f.err = NoErr THEN "fetched" ELSE "idle"]
    /\ mcall' = [mcall EXCEPT ![p] =
                    IF f.err = NoErr THEN [op |-> op, memberIds |-> memberIds]
                    ELSE Idle]
    /\ mread' = [mread EXCEPT ![p] = f.members]

Fetch(p) ==
    /\ mpc[p] = "idle"
    /\ \E op \in {"AddMembers", "RemoveMembers"}, memberIds \in ConcIdLists(MaxConcIds) :
        Fetched(p, op, memberIds,
                fetchMembers(config, unitTesting, groups, ConcKey[1], ConcKey[2]))
    /\ UNCHANGED <<config, unitTesting, dirVars, connVars, translated>>

\* The modify request the call builds from the members it read.
builtRequest(cfg, call, members) ==
    IF call.op = "AddMembers"
    THEN AddMembersRequest(cfg, ConcKey[1], ConcKey[2], members, call.memberIds)
    ELSE RemoveMembersRequest(cfg, ConcKey[1], ConcKey[2], members, call.memberIds)

\* The call sends its modify and returns.
Modify(p) ==
    /\ mpc[p] = "fetched"
    /\ groups' = doLDAPModify(config, unitTesting, groups,
                              builtRequest(config, mcall[p], mread[p]),
                              NoFault, 4).dir
    /\ mpc' = [mpc EXCEPT ![p] = "idle"]
    /\ mcall' = [mcall EXCEPT ![p] = Idle]
    /\ mread' = [mread EXCEPT ![p] = {}]
    /\ UNCHANGED <<config, unitTesting, users, ret, onlyDistinct, connVars, translated>>

NextConc ==
    \E p \in Calls :
        \/ Fetch(p)
        \/ Modify(p)

SpecConc == InitConc /\ [][NextConc]_vars

\* C2 (as claimed): while RemoveMembers and AddMembers calls on one group
\* interleave their read and modify steps, the group has at least one
\* member in every state.
C2_InterleavedKeepMember ==
    \A dn \in DOMAIN groups : groups[dn] # {}

(***************************************************************************)
(* The user subtree of the directory.  The value of a user attribute is a  *)
(* sequence of symbols: the characters of a uid, one symbol for the        *)
(* values whose spelling plays no part.  A user entry holds one value per  *)
(* attribute.                                                              *)
(***************************************************************************)
alternateUserIdAttr == "altUid"
familyNameAttr == "sn"
displayNameAttr == "displayName"
employeeNumberAttr == "employeeNumber"
mailAttr == "mail"
userPasswordAttr == "userPassword"
statusAttr == "status"

UserStatusActive == <<"Active">>
UserStatusDisabled == <<"Disabled">>
UserStatusRevoked == <<"Revoked">>
UserStatusDeleted == <<"Deleted">>
UserTypePersonal == "personal"
UserTypeNPA == "npa"
UserTypeBuilder == "builder"
BuilderAccountSuffix == <<"_", "B", "U", "I", "L", "D", "E", "R">>
BuilderAccountTypeFilter == <<"*">> \o BuilderAccountSuffix

validStatusList ==
    <<UserStatusActive, UserStatusDisabled, UserStatusRevoked, UserStatusDeleted>>
validUserTypes == <<UserTypePersonal, UserTypeNPA, UserTypeBuilder>>
userAttributes ==
    <<userIdAttr, alternateUserIdAttr, CommonNameAttr, familyNameAttr,
      displayNameAttr, employeeNumberAttr, mailAttr, statusAttr>>

\* The user search filters: userSearchFilter matches every user entry,
\* WildcardUserSearchFilter the entries whose attribute key matches value.
userSearchFilter == [key |-> "objectClass", value |-> <<"inetOrgPerson">>]
WildcardUserSearchFilter(key, value) == [key |-> key, value |-> value]

\* strings.TrimSpace on a value: the blanks at both ends go.
TrimSpaceValue(v) ==
    IF \A i \in 1..Len(v) : v[i] = " " THEN <<>>
    ELSE SubSeq(v, CHOOSE i \in 1..Len(v) :
                        v[i] # " " /\ \A j \in 1..(i - 1) : v[j] = " ",
                   CHOOSE i \in 1..Len(v) :
                        v[i] # " " /\ \A j \in (i + 1)..Len(v) : v[j] = " ")

\* strings.Contains on values: part occurs in v as a contiguous run.
ContainsValue(v, part) ==
    \E i \in 1..(Len(v) - Len(part) + 1) : SubSeq(v, i, i + Len(part) - 1) = part

\* The directory's match of a value against a filter value: a leading "*"
\* stands for any beginning.
FilterMatches(pattern, v) ==
    IF Len(pattern) > 0 /\ pattern[1] = "*"
    THEN IsSuffix(Tail(pattern), v)
    ELSE pattern = v

UserBaseDNOf(cfg) == <<<<"base", cfg.UserBaseDN>>>>
\* The uids of the entries, in the order the server answers in.
UidOrder ==
    <<<<"C", "9", "9", "9", "9", "9">>,
      <<"S", "V", "C", "_", "B", "U", "I", "L", "D", "E", "R">>,
      <<"s", "v", "c", "-", "1">>,
      <<"A", "B", "1", "2", "3", "4", "_", "B", "U", "I", "L", "D", "E", "R">>>>

\* The attributes of entry dn that a search asked for.
AnsweredEntry(udir, dn, attributes) ==
    [a \in {"DN"} \cup Range(attributes) |->
        IF a = "DN" THEN dn ELSE udir[dn][a]]

UserEntryMatches(udir, dn, sr) ==
    /\ dn \in DOMAIN udir
    /\ IF sr.scope = "base" THEN dn = sr.base ELSE IsSuffix(sr.base, dn)
    /\ \/ sr.filter.key = "objectClass"
       \/ /\ sr.filter.key \in DOMAIN udir[dn]
          /\ FilterMatches(sr.filter.value, udir[dn][sr.filter.key])

UserServerFound(udir, sr, found) ==
    Served([i \in 1..Len(found) |-> AnsweredEntry(udir, found[i], sr.attributes)],
           udir)

UserServerSearch(udir, sr) ==
    IF ~(sr.base \in DOMAIN udir \/ Len(sr.base) = 1)
    THEN Refused(<<"LDAP Result Code 32", NoSuchObject>>, udir)
    ELSE UserServerFound(udir, sr,
            SelectSeq([i \in 1..Len(UidOrder) |->
                         <<<<userIdAttr, UidOrder[i]>>>> \o SubSeq(sr.base, Len(sr.base), Len(sr.base))],
                      LAMBDA dn : UserEntryMatches(udir, dn, sr)))

UserServerAdd(udir, ar) ==
    IF ar.dn \in DOMAIN udir
    THEN Refused(<<"LDAP Result Code 68", EntryAlreadyExists>>, udir)
    ELSE Served(<<>>, [d \in DOMAIN udir \cup {ar.dn} |->
                        IF d = ar.dn THEN ar.attributes ELSE udir[d]])

UserServerDel(udir, dr) ==
    IF dr.dn \notin DOMAIN udir
    THEN Refused(<<"LDAP Result Code 32", NoSuchObject>>, udir)
    ELSE Served(<<>>, [d \in DOMAIN udir \ {dr.dn} |-> udir[d]])

\* The password modify extended operation: the new password is stored; the
\* server makes one up when none is given and hands it back.
GeneratedPassword == <<"generated">>
UserServerPasswordModify(udir, pmr) ==
    IF pmr.dn \notin DOMAIN udir
    THEN Refused(<<"LDAP Result Code 32", NoSuchObject>>, udir)
    ELSE Served(<<[GeneratedPassword |->
                      IF pmr.newPassword = <<>> THEN GeneratedPassword ELSE <<>>]>>,
                [udir EXCEPT ![pmr.dn][userPasswordAttr] =
                      IF pmr.newPassword = <<>> THEN GeneratedPassword
                      ELSE pmr.newPassword])

UserServer(udir, req) ==
    IF req.kind = "search" THEN UserServerSearch(udir, req)
    ELSE IF req.kind = "add" THEN UserServerAdd(udir, req)
    ELSE IF req.kind = "del" THEN UserServerDel(udir, req)
    ELSE UserServerPasswordModify(udir, req)

\* The execute operations on requests that address the user subtree.
doLDAPUserConnected(c, udir, req, fault, trip) ==
    IF c.err # NoErr
    THEN [err |-> c.err, entries |-> <<>>, dir |-> udir, log |-> c.log]
    ELSE doLDAPAnswered(c, IF FaultAt(fault, trip, "op")
                           THEN Refused(fault.text, udir)
                           ELSE IF FaultAt(fault, trip, "empty") /\ req.kind = "search"
                           THEN Served(<<>>, udir)
                           ELSE UserServer(udir, req), req)

doLDAPUser(cfg, ut, udir, req, fault, trip) ==
    doLDAPUserConnected(connect(cfg, ut, fault, trip), udir, req, fault, trip)

doLDAPPasswordModify(cfg, ut, udir, pmr, fault, trip) ==
    doLDAPUser(cfg, ut, udir, pmr, fault, trip)

(***************************************************************************)
(* usersManager: requests, parsing and validation.  A User is a record of  *)
(* values; a list of users that Go would hold as a nil slice has isNil.    *)
(***************************************************************************)
AsciiLetters ==
    {"A", "B", "C", "D", "E", "F", "G", "H", "I", "J", "K", "L", "M", "N", "O",
     "P", "Q", "R", "S", "T", "U", "V", "W", "X", "Y", "Z", "a", "b", "c", "d",
     "e", "f", "g", "h", "i", "j", "k", "l", "m", "n", "o", "p", "q", "r", "s",
     "t", "u", "v", "w", "x", "y", "z"}
AsciiDigits == {"0", "1", "2", "3", "4", "5", "6", "7", "8", "9"}

\* v[from..to] are all drawn from class.
AllIn(v, from, to, class) == \A i \in from..to : v[i] \in class

\* regexp.Match with PersonalUserTypeRegex,
\*   ^[A-Za-z]{1,2}[0-9]{4,5}[A-Za-z]{0,1} | ^[A-Za-z]{4,5}$ | ^[A-Za-z]{2,3}[0-9]{1,2}$
\* The first alternative is anchored at the start only.
PersonalUserTypeRegexMatch(uid) ==
    \/ \E a \in 1..2 :
          /\ Len(uid) >= a + 4
          /\ AllIn(uid, 1, a, AsciiLetters)
          /\ AllIn(uid, a + 1, a + 4, AsciiDigits)
    \/ /\ Len(uid) \in 4..5
       /\ AllIn(uid, 1, Len(uid), AsciiLetters)
    \/ \E a \in 2..3, d \in 1..2 :
          /\ Len(uid) = a + d
          /\ AllIn(uid, 1, a, AsciiLetters)
          /\ AllIn(uid, a + 1, a + d, AsciiDigits)

umGetDN(cfg, uid) == <<<<userIdAttr, uid>>, <<"base", cfg.UserBaseDN>>>>

getUsersSearchRequest(cfg, filter) ==
    [kind |-> "search", base |-> UserBaseDNOf(cfg), scope |-> "sub",
     filter |-> filter, attributes |-> userAttributes]

getUserSearchRequest(DN) ==
    [kind |-> "search", base |-> DN, scope |-> "base",
     filter |-> userSearchFilter, attributes |-> userAttributes]

umGetAddRequest(cfg, user) ==
    [kind |-> "add", dn |-> umGetDN(cfg, user.Uid),
     attributes |->
        [uid |-> user.Uid, altUid |-> user.AltUid, cn |-> user.Cn, sn |-> user.Sn,
         displayName |-> user.DisplayName, employeeNumber |-> user.EmployeeNumber,
         mail |-> user.Mail, userPassword |-> user.UserPassword,
         status |-> user.Status]]

getPasswordModifyRequest(cfg, uid, oldPassword, newPassword) ==
    [kind |-> "passwordModify", dn |-> umGetDN(cfg, uid),
     oldPassword |-> oldPassword, newPassword |-> newPassword]

umGetDeleteRequest(cfg, uid) == [kind |-> "del", dn |-> umGetDN(cfg, uid)]

\* Entry.GetAttributeValue: the value, or the empty value when the entry
\* came without the attribute.
GetAttributeValue(e, a) == IF a \in DOMAIN e THEN e[a] ELSE <<>>

NilUsers == [isNil |-> TRUE, list |-> <<>>]
\* The list a loop of appends leaves in a variable declared without a value.
Appended(list) == [isNil |-> Len(list) = 0, list |-> list]

\* usersManager.parseSearchResult, the loop over the entries.
umParsedEntries(entries) ==
    Appended([i \in 1..Len(entries) |->
        [Uid |-> GetAttributeValue(entries[i], userIdAttr),
         AltUid |-> GetAttributeValue(entries[i], alternateUserIdAttr),
         Cn |-> GetAttributeValue(entries[i], CommonNameAttr),
         Sn |-> GetAttributeValue(entries[i], familyNameAttr),
         DisplayName |-> GetAttributeValue(entries[i], displayNameAttr),
         EmployeeNumber |-> GetAttributeValue(entries[i], employeeNumberAttr),
         Mail |-> GetAttributeValue(entries[i], mailAttr),
         UserPassword |-> GetAttributeValue(entries[i], userPasswordAttr),
         Status |-> GetAttributeValue(entries[i], statusAttr)]])

\* A faulty variant of umParseSearchResult: the empty list is not replaced.
umParseSearchResultAsAppended(entries) == umParsedEntries(entries)

umParseSearchResult(entries) ==
    IF Len(umParsedEntries(entries).list) = 0
    THEN [isNil |-> FALSE, list |-> <<>>]
    ELSE umParsedEntries(entries)

validateUid(uid) ==
    IF TrimSpaceValue(uid) = <<>>
    THEN BadRequestError(<<"MissingMandatoryParameter", userIdAttr>>)
    ELSE NoErr

validateStatus(status) ==
    IF status \notin Range(validStatusList)
    THEN BadRequestError(<<"Invalid status", status>>)
    ELSE NoErr

missingUserParams(user) ==
    (IF TrimSpaceValue(user.Uid) = <<>> THEN <<userIdAttr>> ELSE <<>>)
    \o (IF TrimSpaceValue(user.AltUid) = <<>> THEN <<alternateUserIdAttr>> ELSE <<>>)
    \o (IF TrimSpaceValue(user.Cn) = <<>> THEN <<CommonNameAttr>> ELSE <<>>)
    \o (IF TrimSpaceValue(user.Sn) = <<>> THEN <<familyNameAttr>> ELSE <<>>)
    \o (IF TrimSpaceValue(user.DisplayName) = <<>> THEN <<displayNameAttr>> ELSE <<>>)
    \o (IF TrimSpaceValue(user.Mail) = <<>> THEN <<mailAttr>> ELSE <<>>)
    \o (IF TrimSpaceValue(user.UserPassword) = <<>> THEN <<userPasswordAttr>> ELSE <<>>)
    \o (IF TrimSpaceValue(user.Status) = <<>> THEN <<statusAttr>> ELSE <<>>)

validateUser(user) ==
    IF Len(missingUserParams(user)) > 0
    THEN BadRequestError(<<"MissingMandatoryParameter">> \o missingUserParams(user))
    ELSE validateStatus(user.Status)

missingFilterParams(key, value) ==
    (IF TrimSpace(key) = "" THEN <<"key">> ELSE <<>>)
    \o (IF TrimSpaceValue(value) = <<>> THEN <<"value">> ELSE <<>>)

validateFilter(key, value) ==
    IF Len(missingFilterParams(key, value)) > 0
    THEN BadRequestError(<<"MissingMandatoryParameter">> \o missingFilterParams(key, value))
    ELSE IF key \notin Range(userAttributes)
    THEN BadRequestError(<<"Invalid filter key", key>>)
    ELSE NoErr

(***************************************************************************)
(* usersManager: the public operations.  Each yields the error returned,   *)
(* the user subtree afterwards, the transport calls made, the requests     *)
(* sent and the value returned.                                            *)
(***************************************************************************)
userNotFound(uid) == NotFoundError(<<"User was not found", uid>>)
userAlreadyExists(uid) == ConflictError(<<"User already exists", uid>>)

\* A call that returns before it contacts the directory.
Rejected(err, udir) ==
    [err |-> err, dir |-> udir, log |-> <<>>, sent |-> <<>>, result |-> NilUsers]

\* GetAll / Filter, after the search sr returned r.
usersSearched(udir, sr, r) ==
    [err |-> r.err, dir |-> udir, log |-> r.log, sent |-> <<sr>>,
     result |-> IF r.err # NoErr THEN NilUsers ELSE umParseSearchResult(r.entries)]

usersSearch(cfg, ut, udir, sr, fault) ==
    usersSearched(udir, sr, doLDAPUser(cfg, ut, udir, sr, fault, 1))

UsersGetAll(cfg, ut, udir, fault) ==
    usersSearch(cfg, ut, udir, getUsersSearchRequest(cfg, userSearchFilter), fault)

UsersFilter(cfg, ut, udir, key, value, fault) ==
    IF validateFilter(key, value) # NoErr
    THEN Rejected(validateFilter(key, value), udir)
    ELSE usersSearch(cfg, ut, udir,
            getUsersSearchRequest(cfg, WildcardUserSearchFilter(key, value)), fault)

UsersFilterByStatus(cfg, ut, udir, status, fault) ==
    IF validateStatus(status) # NoErr
    THEN Rejected(validateStatus(status), udir)
    ELSE UsersFilter(cfg, ut, udir, statusAttr, status, fault)

\* getPersonalAccounts, after GetAll returned g.
personalAccountsOf(g) ==
    IF g.err # NoErr THEN [g EXCEPT !.result = NilUsers]
    ELSE [g EXCEPT !.result =
            Appended(SelectSeq(g.result.list,
                               LAMBDA u : PersonalUserTypeRegexMatch(u.Uid)))]

getPersonalAccounts(cfg, ut, udir, fault) ==
    personalAccountsOf(UsersGetAll(cfg, ut, udir, fault))

getBuilderAccounts(cfg, ut, udir, fault) ==
    UsersFilter(cfg, ut, udir, userIdAttr, BuilderAccountTypeFilter, fault)

\* getNPAAccounts, after GetAll returned g.
npaAccountsOf(g) ==
    IF g.err # NoErr THEN [g EXCEPT !.result = NilUsers]
    ELSE [g EXCEPT !.result =
            Appended(SelectSeq(g.result.list,
                               LAMBDA u : /\ ~PersonalUserTypeRegexMatch(u.Uid)
                                          /\ ~ContainsValue(u.Uid, BuilderAccountSuffix)))]

getNPAAccounts(cfg, ut, udir, fault) ==
    npaAccountsOf(UsersGetAll(cfg, ut, udir, fault))

UsersFilterByType(cfg, ut, udir, userType, fault) ==
    IF userType = UserTypePersonal THEN getPersonalAccounts(cfg, ut, udir, fault)
    ELSE IF userType = UserTypeBuilder THEN getBuilderAccounts(cfg, ut, udir, fault)
    ELSE IF userType = UserTypeNPA THEN getNPAAccounts(cfg, ut, udir, fault)
    ELSE Rejected(BadRequestError(<<"Invalid type", userType>>), udir)

\* Get, after the search sr returned r: the first user parsed.
UsersGetSearched(udir, uid, sr, r) ==
    [err |-> IF r.err # NoErr
             THEN IF r.err.status = 404 THEN userNotFound(uid) ELSE r.err
             ELSE IF Len(umParseSearchResult(r.entries).list) = 0 THEN Panicked
             ELSE NoErr,
     dir |-> udir, log |-> r.log, sent |-> <<sr>>,
     result |-> IF r.err # NoErr \/ Len(umParseSearchResult(r.entries).list) = 0
                THEN NilUsers
                ELSE Appended(SubSeq(umParseSearchResult(r.entries).list, 1, 1))]

UsersGetRequested(cfg, ut, udir, uid, sr, fault) ==
    UsersGetSearched(udir, uid, sr, doLDAPUser(cfg, ut, udir, sr, fault, 1))

UsersGet(cfg, ut, udir, uid, fault) ==
    IF validateUid(uid) # NoErr THEN Rejected(validateUid(uid), udir)
    ELSE UsersGetRequested(cfg, ut, udir, uid,
                           getUserSearchRequest(umGetDN(cfg, uid)), fault)

\* A faulty variant of passwordModified: the error of the password modify is
\* returned as it is.
passwordModifiedAsTranslated(uid, pmr, r) ==
    [err |-> r.err, dir |-> r.dir, log |-> r.log, sent |-> <<pmr>>,
     result |-> IF r.err # NoErr THEN <<>> ELSE r.entries[1].GeneratedPassword]

\* modifyPassword, after the password modify pmr returned r.
passwordModified(uid, pmr, r) ==
    [err |-> IF r.err # NoErr
             THEN IF r.err.status = 404 THEN userNotFound(uid) ELSE r.err
             ELSE NoErr,
     dir |-> r.dir, log |-> r.log, sent |-> <<pmr>>,
     result |-> IF r.err # NoErr THEN <<>> ELSE r.entries[1].GeneratedPassword]

modifyPasswordRequested(cfg, ut, udir, uid, pmr, fault, trip) ==
    passwordModified(uid, pmr, doLDAPPasswordModify(cfg, ut, udir, pmr, fault, trip))

modifyPassword(cfg, ut, udir, uid, oldPassword, newPassword, fault, trip) ==
    modifyPasswordRequested(cfg, ut, udir, uid,
        getPasswordModifyRequest(cfg, uid, oldPassword, newPassword), fault, trip)

\* Create, after the add returned a and, if it was made, the password
\* modify returned m.
UsersCreatePasswordSet(ar, a, m) ==
    [err |-> m.err, dir |-> m.dir, log |-> a.log \o m.log,
     sent |-> <<ar>> \o m.sent, result |-> NilUsers]

\* A faulty variant of UsersCreateAdded: the password is set whatever the add
\* returned.
UsersCreateAddedThenAlwaysSet(cfg, ut, user, ar, a, fault) ==
    UsersCreatePasswordSet(ar, a,
        modifyPassword(cfg, ut, a.dir, user.Uid, user.UserPassword,
                       user.UserPassword, fault, 2))

\* Create, after the add ar returned a.
UsersCreateAdded(cfg, ut, user, ar, a, fault) ==
    IF a.err # NoErr
    THEN [err |-> IF a.err.status = 400 THEN userAlreadyExists(user.Uid) ELSE a.err,
          dir |-> a.dir, log |-> a.log, sent |-> <<ar>>, result |-> NilUsers]
    ELSE UsersCreatePasswordSet(ar, a,
            modifyPassword(cfg, ut, a.dir, user.Uid, user.UserPassword,
                           user.UserPassword, fault, 2))

UsersCreateRequested(cfg, ut, udir, user, ar, fault) ==
    UsersCreateAdded(cfg, ut, user, ar, doLDAPUser(cfg, ut, udir, ar, fault, 1), fault)

UsersCreate(cfg, ut, udir, user, fault) ==
    IF validateUser(user) # NoErr THEN Rejected(validateUser(user), udir)
    ELSE UsersCreateRequested(cfg, ut, udir, user, umGetAddRequest(cfg, user), fault)

\* Delete, after the delete dr returned d.
UsersDeleteDone(uid, dr, d) ==
    [err |-> IF d.err # NoErr
             THEN IF d.err.status = 404 THEN userNotFound(uid) ELSE d.err
             ELSE NoErr,
     dir |-> d.dir, log |-> d.log, sent |-> <<dr>>, result |-> NilUsers]

UsersDeleteRequested(cfg, ut, udir, uid, dr, fault) ==
    UsersDeleteDone(uid, dr, doLDAPUser(cfg, ut, udir, dr, fault, 1))

UsersDelete(cfg, ut, udir, uid, fault) ==
    IF validateUid(uid) # NoErr THEN Rejected(validateUid(uid), udir)
    ELSE UsersDeleteRequested(cfg, ut, udir, uid, umGetDeleteRequest(cfg, uid), fault)

\* Authenticate, after connect returned c.
UsersAuthenticated(udir, c) ==
    [err |-> c.err, dir |-> udir, log |-> c.log, sent |-> <<>>, result |-> NilUsers]

UsersAuthenticate(cfg, ut, udir, fault) ==
    UsersAuthenticated(udir, connect(cfg, ut, fault, 1))

\* SetNewPassword, after modifyPassword returned m: the generated password
\* when none was given, else the one given.
UsersPasswordSet(newPassword, m) ==
    [m EXCEPT !.result = IF m.err # NoErr THEN <<>>
                         ELSE IF newPassword = <<>> THEN m.result ELSE newPassword]

UsersSetNewPassword(cfg, ut, udir, uid, newPassword, fault) ==
    UsersPasswordSet(newPassword,
        modifyPassword(cfg, ut, udir, uid, <<>>, newPassword, fault, 1))

(***************************************************************************)
(* The sequential specification of the user manager: one client built      *)
(* without the harness option, public calls one at a time on the user      *)
(* subtree, and lookups and deletions of one group beside them.            *)
(***************************************************************************)
UidPool == Range(UidOrder) \cup {<<>>, <<" ">>}

\* The user a caller passes to Create for uid.
UserOf(uid) ==
    [Uid |-> uid, AltUid |-> <<"alt">>, Cn |-> <<"cn">>, Sn |-> <<"sn">>,
     DisplayName |-> <<"name">>, EmployeeNumber |-> <<>>, Mail |-> <<"mail">>,
     UserPassword |-> <<"pw">>, Status |-> UserStatusActive]

UserPool ==
    {UserOf(uid) : uid \in Range(UidOrder)}
    \cup {[UserOf(UidOrder[1]) EXCEPT !.Cn = <<" ">>, !.Mail = <<>>],
          [UserOf(UidOrder[1]) EXCEPT !.Status = <<"Retired">>]}

FilterKeyPool == {"", " ", "badkey", userIdAttr, statusAttr}
FilterValuePool ==
    {<<>>, <<" ">>, UidOrder[1], UserStatusActive, BuilderAccountTypeFilter}
StatusPool == Range(validStatusList) \cup {<<"Retired">>}
UserTypePool == Range(validUserTypes) \cup {"admin"}
NewPasswordPool == {<<>>, <<"pw2">>}

\* A user call makes at most two round trips (Create: add, password modify).
UserFaultPool == {f \in AllFaults : f.trip <= 2}

InitUsers ==
    /\ config \in ConfigPool
    /\ unitTesting = FALSE
    /\ groups = Create(NewClientConfig(testConfig), FALSE, NoDir, "g1", "ou1",
                       <<<<"a">>>>, NoFault).dir
    /\ users = NoDir
    /\ ret = Idle
    /\ onlyDistinct = TRUE
    /\ InitOther

\* The handler of a public user call has produced r.
UserReturns(op, args, r) ==
    /\ users' = r.dir
    /\ ret' = [op |-> op, args |-> args, err |-> r.err, before |-> users,
               log |-> r.log, sent |-> r.sent, result |-> r.result]
    /\ UNCHANGED <<config, unitTesting, groups, onlyDistinct, connVars, membVars,
                   translated>>

CallUsersGetAll ==
    /\ ret = Idle
    /\ \E fault \in UserFaultPool :
        UserReturns("Users.GetAll", [fault |-> fault],
                    UsersGetAll(config, unitTesting, users, fault))

CallUsersGet ==
    /\ ret = Idle
    /\ \E uid \in UidPool, fault \in UserFaultPool :
        UserReturns("Users.Get", [uid |-> uid, fault |-> fault],
                    UsersGet(config, unitTesting, users, uid, fault))

CallUsersFilter ==
    /\ ret = Idle
    /\ \E key \in FilterKeyPool, value \in FilterValuePool, fault \in UserFaultPool :
        UserReturns("Users.Filter", [key |-> key, value |-> value, fault |-> fault],
                    UsersFilter(config, unitTesting, users, key, value, fault))

CallUsersFilterByStatus ==
    /\ ret = Idle
    /\ \E status \in StatusPool, fault \in UserFaultPool :
        UserReturns("Users.FilterByStatus", [status |-> status, fault |-> fault],
                    UsersFilterByStatus(config, unitTesting, users, status, fault))

CallUsersFilterByType ==
    /\ ret = Idle
    /\ \E userType \in UserTypePool, fault \in UserFaultPool :
        UserReturns("Users.FilterByType", [userType |-> userType, fault |-> fault],
                    UsersFilterByType(config, unitTesting, users, userType, fault))

CallUsersCreate ==
    /\ ret = Idle
    /\ \E user \in UserPool, fault \in UserFaultPool :
        UserReturns("Users.Create", [uid |-> user.Uid, user |-> user, fault |-> fault],
                    UsersCreate(config, unitTesting, users, user, fault))

CallUsersDelete ==
    /\ ret = Idle
    /\ \E uid \in UidPool, fault \in UserFaultPool :
        UserReturns("Users.Delete", [uid |-> uid, fault |-> fault],
                    UsersDelete(config, unitTesting, users, uid, fault))

CallUsersAuthenticate ==
    /\ ret = Idle
    /\ \E fault \in UserFaultPool :
        UserReturns("Users.Authenticate", [fault |-> fault],
                    UsersAuthenticate(config, unitTesting, users, fault))

CallUsersSetNewPassword ==
    /\ ret = Idle
    /\ \E uid \in UidPool, newPassword \in NewPasswordPool, fault \in UserFaultPool :
        UserReturns("Users.SetNewPassword", [uid |-> uid, newPassword |-> newPassword,
                     fault |-> fault],
                    UsersSetNewPassword(config, unitTesting, users, uid, newPassword,
                                        fault))

\* A group call has produced r with the value result: the group subtree is as
\* the call left it.
GroupReturns(op, args, r, result) ==
    /\ groups' = r.dir
    /\ ret' = [op |-> op, args |-> args, err |-> r.err, before |-> groups,
               log |-> r.log, sent |-> r.sent, result |-> result]
    /\ UNCHANGED <<config, unitTesting, users, onlyDistinct, connVars, membVars,
                   translated>>

\* Get changes nothing in the directory.
GroupsGetReturns(args, g) ==
    GroupReturns("Groups.Get", args,
                 [err |-> g.err, dir |-> groups, log |-> g.log, sent |-> <<>>],
                 g.result)

CallGroupsGet ==
    /\ ret = Idle
    /\ \E key \in GetKeyPool, fault \in UserFaultPool :
        GroupsGetReturns([cn |-> key[1], ou |-> key[2], fault |-> fault],
                         Get(config, unitTesting, groups, key[1], key[2], fault, 1))

CallGroupsDelete ==
    /\ ret = Idle
    /\ \E key \in KeyPool, fault \in UserFaultPool :
        GroupReturns("Groups.Delete", [cn |-> key[1], ou |-> key[2], fault |-> fault],
                     Delete(config, unitTesting, groups, key[1], key[2], fault),
                     <<>>)

NextUsers ==
    \/ CallUsersGetAll
    \/ CallUsersGet
    \/ CallUsersFilter
    \/ CallUsersFilterByStatus
    \/ CallUsersFilterByType
    \/ CallUsersCreate
    \/ CallUsersDelete
    \/ CallUsersAuthenticate
    \/ CallUsersSetNewPassword
    \/ CallGroupsGet
    \/ CallGroupsDelete
    \/ Return

SpecUsers == InitUsers /\ [][NextUsers]_vars

(***************************************************************************)
(* The execute operations on their own: connect and the five operations,   *)
(* one at a time, each with any one of its steps refused.                  *)
(***************************************************************************)
ExecFaultPool == {f \in AllFaults : f.trip <= 1}

ExecSearchRequests(cfg) ==
    {getSearchRequest(cfg, "g1", "ou1", "groupOfUniqueNames"),
     getSearchRequest(cfg, "", "", "groupOfUniqueNames")}
ExecAddRequests(cfg) ==
    {getAddRequest(cfg, "g1", "ou1", <<noSuchUserGroupMemberCn>>),
     getAddRequest(cfg, "g2", "ou1", <<<<"a">>>>)}
ExecModifyRequests(cfg) ==
    {mrAdd(getModifyRequest(cfg, "g1", "ou1"), <<getUniqueMemberDn(cfg, <<"B">>)>>)}
ExecDeleteRequests(cfg) == {getDeleteRequest(cfg, "g1", "ou1")}
ExecPasswordModifyRequests(cfg) ==
    {getPasswordModifyRequest(cfg, UidOrder[1], <<>>, <<"pw2">>),
     getPasswordModifyRequest(cfg, UidOrder[1], <<>>, <<>>)}

\* The protocols a caller may put in the Config or pass to SetProtocol.
ProtocolPool == {"", "ldap", "ldaps", "LDAP", "http", " ldaps"}

InitExec ==
    /\ config \in {NewClientConfig([cfg EXCEPT !.Protocol = protocol]) :
                    cfg \in ConfigPool, protocol \in ProtocolPool}
    /\ unitTesting \in BOOLEAN
    /\ groups = NoDir
    /\ users \in {NoDir,
                  UsersCreate(NewClientConfig(testConfig), FALSE, NoDir,
                              UserOf(UidOrder[1]), NoFault).dir}
    /\ ret = Idle
    /\ onlyDistinct = TRUE
    /\ InitOther

\* The execute operation op has returned r.
Executed(op, fault, req, r) ==
    ret' = [op |-> op, fault |-> fault, sent |-> req, err |-> r.err, log |-> r.log,
            before |-> <<groups, users>>]

ExecConnect ==
    /\ ret = Idle
    /\ \E fault \in ExecFaultPool :
        Executed("connect", fault, <<>>, connect(config, unitTesting, fault, 1))
    /\ UNCHANGED <<config, unitTesting, groups, users, onlyDistinct, connVars,
                   membVars, translated>>

\* An execute operation on a group request leaves the group subtree as r has it.
ExecutedOnGroups(op, fault, req, r) ==
    /\ Executed(op, fault, req, r)
    /\ groups' = r.dir
    /\ UNCHANGED <<config, unitTesting, users, onlyDistinct, connVars, membVars,
                   translated>>

ExecSearch ==
    /\ ret = Idle
    /\ \E fault \in ExecFaultPool, sr \in ExecSearchRequests(config) :
        ExecutedOnGroups("search", fault, sr,
                         doLDAPSearch(config, unitTesting, groups, sr, fault, 1))

ExecAdd ==
    /\ ret = Idle
    /\ \E fault \in ExecFaultPool, ar \in ExecAddRequests(config) :
        ExecutedOnGroups("add", fault, ar,
                         doLDAPAdd(config, unitTesting, groups, ar, fault, 1))

ExecDelete ==
    /\ ret = Idle
    /\ \E fault \in ExecFaultPool, dr \in ExecDeleteRequests(config) :
        ExecutedOnGroups("del", fault, dr,
                         doLDAPDelete(config, unitTesting, groups, dr, fault, 1))

ExecModify ==
    /\ ret = Idle
    /\ \E fault \in ExecFaultPool, mr \in ExecModifyRequests(config) :
        ExecutedOnGroups("modify", fault, mr,
                         doLDAPModify(config, unitTesting, groups, mr, fault, 1))

\* The same on a user request.
ExecutedOnUsers(op, fault, req, r) ==
    /\ Executed(op, fault, req, r)
    /\ users' = r.dir
    /\ UNCHANGED <<config, unitTesting, groups, onlyDistinct, connVars, membVars,
                   translated>>

ExecPasswordModify ==
    /\ ret = Idle
    /\ \E fault \in ExecFaultPool, pmr \in ExecPasswordModifyRequests(config) :
        ExecutedOnUsers("passwordModify", fault, pmr,
                        doLDAPPasswordModify(config, unitTesting, users, pmr, fault, 1))

\* Client.SetProtocol(protocol), called between operations.
CallSetProtocol ==
    /\ ret = Idle
    /\ \E protocol \in ProtocolPool :
        /\ config' = SetProtocol(config, protocol)
        /\ ret' = [op |-> "SetProtocol", protocol |-> protocol, before |-> config]
    /\ UNCHANGED <<unitTesting, groups, users, onlyDistinct, connVars, membVars,
                   translated>>

NextExec ==
    \/ CallSetProtocol
    \/ ExecConnect
    \/ ExecSearch
    \/ ExecAdd
    \/ ExecDelete
    \/ ExecModify
    \/ ExecPasswordModify
    \/ Return

SpecExec == InitExec /\ [][NextExec]_vars

\* Position i of the log of the call is the protocol operation.
IsOperation(i) == ret.log[i] \in ExecuteOps
\* The call returned from an execute operation (connect alone is not one).
ExecuteReturned == ret # Idle /\ ret.op \in ExecuteOps

\* C11: in every execute operation dial (outside harness mode) comes first,
\* bind next and the protocol operation after the bind; the operation is
\* sent only if no step before it failed, and a refused bind ends the call
\* with the translated bind error and no operation sent.
C11_StepsInOrder ==
    ExecuteReturned =>
        /\ \A i \in 1..Len(ret.log) :
            /\ ret.log[i] = "dial" => i = 1 /\ ~unitTesting
            /\ ret.log[i] = "bind" => i = (IF unitTesting THEN 1 ELSE 2)
            /\ IsOperation(i) =>
                /\ ret.log[i] = ret.op
                /\ i > 1 /\ ret.log[i - 1] = "bind"
                /\ ret.fault.step \notin {"dial", "bind"} \/
                   (unitTesting /\ ret.fault.step = "dial")
        /\ (\E i \in 1..Len(ret.log) : ret.log[i] = "bind") =>
             (unitTesting \/ ret.log[1] = "dial")
        /\ (ret.fault.step = "bind" /\ \A f \in DOMAIN config : config[f] # "") =>
             /\ ret.err = handleLdapError(ret.fault.text)
             /\ ret.log[Len(ret.log)] = "bind"
             /\ \A i \in 1..Len(ret.log) : ~IsOperation(i)
             /\ <<groups, users>> = ret.before

\* An execute operation whose bind was refused has returned, after a dial.
C11_Witness ==
    /\ ExecuteReturned
    /\ ret.fault.step = "bind"
    /\ ret.log = <<"dial", "bind">>
    /\ ret.err.code = "Unauthorized"

\* The required fields that are empty in the configuration, in declaration
\* order.
EmptyRequired ==
    SelectSeq(<<"Protocol", "Hostname", "Port", "BaseDN", "UserBaseDN",
                "GroupBaseDN", "BindUser", "BindPassword">>,
              LAMBDA f : config[f] = "")

\* C12: with a required configuration field empty, connect and every
\* execute operation return BadRequest listing the empty fields, and no
\* dial, bind or protocol operation is attempted.
C12_IncompleteConfigRejected ==
    (ret # Idle /\ ret.op \in ExecuteOps \cup {"connect"} /\ EmptyRequired # <<>>) =>
        /\ ret.err.code = "BadRequest" /\ ret.err.status = 400
        /\ SubSeq(ret.err.message, 2, Len(ret.err.message)) = EmptyRequired
        /\ ret.log = <<>>
        /\ <<groups, users>> = ret.before

\* An execute operation was refused for a configuration without hostname and
\* bind password.
C12_Witness ==
    /\ ExecuteReturned
    /\ EmptyRequired = <<"Hostname", "BindPassword">>
    /\ ret.err.status = 400
    /\ ret.log = <<>>

(***************************************************************************)
(* Properties of the user operations, on SpecUsers.                        *)
(***************************************************************************)
UserReturned(op) == ret # Idle /\ ret.op = op
\* The protocol operation name occurs in the log of the call.
Attempted(name) == \E i \in 1..Len(ret.log) : ret.log[i] = name
\* The number of occurrences of name in the log of the call.
Attempts(name) == Cardinality({i \in 1..Len(ret.log) : ret.log[i] = name})
\* The entry of the uid of the call, in the configured user subtree.
UserDnOf(uid) == umGetDN(config, uid)

\* C13: Users.Create returns Conflict exactly when the add was sent and the
\* directory refused it because the entry exists; every other failure of
\* the add step is returned as its own error.
C13_ConflictOnlyWhenExists ==
    UserReturned("Users.Create") =>
        (ret.err.code = "Conflict" <=>
            /\ Attempted("add")
            /\ ~FaultAt(ret.args.fault, 1, "op")
            /\ UserDnOf(ret.args.uid) \in DOMAIN ret.before)

(***************************************************************************)
(* Further properties of the sequential specification of the groups.       *)
(***************************************************************************)
GroupReturned(op) == ret # Idle /\ ret.op = op
\* The configuration of the client has every required field.
ConfigComplete == \A f \in DOMAIN config : config[f] # ""

\* C14: a Groups.Create(cn, ou, []) for a valid organizational unit and a
\* group that does not exist fails only if the configuration is incomplete
\* or a round trip is refused; after it succeeded, the same call again
\* fails with Conflict naming cn and ou and leaves the directory, the group
\* of the first call included, as it is.
C14_SecondCreateConflicts ==
    (/\ GroupReturned("Create")
     /\ ret.memberIds = <<>>
     /\ TrimSpace(ret.cn) # ""
     /\ ret.ou \in Range(OrgUnits)) =>
        /\ (ret.err # NoErr /\ ConfigComplete /\ Addressed \notin DOMAIN ret.before) =>
             ret.err.code = "Forbidden"
        /\ ret.err = NoErr =>
             LET again == Create(config, unitTesting, groups, ret.cn, ret.ou, <<>>,
                                 NoFault)
             IN  /\ again.err.code = "Conflict" /\ again.err.status = 409
                 /\ again.err.message = <<"Group already exists", ret.cn, ret.ou>>
                 /\ again.dir = groups
                 /\ groups[Addressed] = {Sentinel}

\* A group was created without members, for a valid organizational unit.
C14_Witness ==
    /\ Succeeded("Create")
    /\ ret.memberIds = <<>>
    /\ ret.ou \in Range(OrgUnits)
    /\ Addressed \notin DOMAIN ret.before
    /\ Addressed \in DOMAIN groups

\* The call failed on its input: a mandatory parameter is missing or blank,
\* or the organizational unit is not one of the valid ones.
InputRejected ==
    /\ ret.err # NoErr
    /\ ret.err.code = "BadRequest"
    /\ ret.err.message[1] \in {"MissingMandatoryParameter", "Invalid organizational unit"}

\* C15 (as claimed): a public group operation that fails because its input
\* is invalid has attempted no connection, bind or protocol operation.
C15_InvalidInputNoNetwork ==
    (ret # Idle /\ InputRejected) => ret.log = <<>>

\* The number of protocol operations (binds not counted) in the log of the
\* call.
OperationsIssued ==
    Cardinality({i \in 1..Len(ret.log) : ret.log[i] \in ExecuteOps})

\* C16 (as claimed): a public group operation opens at most two connections
\* and issues at most two protocol operations; AddMembers and RemoveMembers,
\* when they succeed, issue exactly one read and one modify.
C16_AtMostTwoRoundTrips ==
    ret # Idle =>
        /\ Attempts("dial") <= 2
        /\ OperationsIssued <= 2
        /\ (Succeeded("AddMembers") \/ Succeeded("RemoveMembers")) =>
             Attempts("search") = 1 /\ Attempts("modify") = 1

\* The first position of name in the log of the call (0 if there is none).
FirstAttempt(name) ==
    IF Attempted(name)
    THEN CHOOSE i \in 1..Len(ret.log) :
            ret.log[i] = name /\ \A j \in 1..(i - 1) : ret.log[j] # name
    ELSE 0
\* The add of the Create call went through: its entry is there now and was
\* not before.
UserAdded ==
    /\ UserDnOf(ret.args.uid) \notin DOMAIN ret.before
    /\ UserDnOf(ret.args.uid) \in DOMAIN users

\* C17: Users.Create sends the add first and the password modify, with the
\* user's password as old and as new password, only after the add went
\* through; after a failed add no password modify is sent; when the password
\* modify fails after the add, Create returns that error, sends no delete
\* or other operation, and the entry of the add stays in the directory.
C17_CreateAddThenPassword ==
    UserReturned("Users.Create") =>
        /\ Attempts("add") <= 1 /\ Attempts("passwordModify") <= 1
        /\ Attempted("passwordModify") =>
            /\ UserAdded
            /\ 0 < FirstAttempt("add")
            /\ FirstAttempt("add") < FirstAttempt("passwordModify")
            /\ ret.sent[2].kind = "passwordModify"
            /\ ret.sent[2].dn = ret.sent[1].dn
            /\ ret.sent[2].oldPassword = ret.args.user.UserPassword
            /\ ret.sent[2].newPassword = ret.args.user.UserPassword
        /\ ~UserAdded =>
            /\ ~Attempted("passwordModify")
            /\ users = ret.before
            /\ Attempted("add") => ret.err # NoErr
        /\ (UserAdded /\ ret.args.fault.trip # 2) =>
            Attempted("passwordModify") /\ ret.err = NoErr
        /\ (UserAdded /\ ret.err # NoErr) =>
            /\ ret.err = handleLdapError(ret.args.fault.text)
            /\ OperationsIssued <= 2
            /\ ~Attempted("del") /\ ~Attempted("modify")
            /\ users[UserDnOf(ret.args.uid)] = ret.sent[1].attributes

\* The password modify of a Create was refused after its add went through.
C17_Witness ==
    /\ UserReturned("Users.Create")
    /\ UserAdded
    /\ Attempted("passwordModify")
    /\ ret.err # NoErr

\* The operations that turn the directory's "no such object" into NotFound.
NotFoundOps ==
    {"Users.Get", "Users.Delete", "Users.SetNewPassword", "Groups.Get",
     "Groups.Delete"}
OnGroup == ret.op \in {"Groups.Get", "Groups.Delete"}
\* The round trip of the call that carries the operation's own request: for
\* the group operations the lookup of the organizational units comes first.
OwnTrip ==
    IF ret.op = "Groups.Delete" \/ (ret.op = "Groups.Get" /\ ret.args.ou # "")
    THEN 2 ELSE 1
OwnKind ==
    IF ret.op \in {"Users.Get", "Groups.Get"} THEN "search"
    ELSE IF ret.op = "Users.SetNewPassword" THEN "passwordModify"
    ELSE "del"
OwnRequest ==
    IF ret.op = "Groups.Get"
    THEN getSearchRequest(config, ret.args.cn, ret.args.ou, "groupOfUniqueNames")
    ELSE ret.sent[1]
\* The own request of the call reached the directory.
OwnRequestSent ==
    Attempts(OwnKind) = (IF OwnKind = "search" THEN OwnTrip ELSE 1)
\* What the directory answers to it, unless the round trip is refused.
OwnAnswer ==
    IF OnGroup THEN Server(ret.before, OwnRequest)
    ELSE UserServer(ret.before, OwnRequest)
AnsweredNoSuchObject ==
    /\ OwnRequestSent
    /\ ret.args.fault.trip # OwnTrip
    /\ OwnAnswer.failed
    /\ NoSuchObject \in Range(OwnAnswer.text)

\* C18: when the directory answers "no such object" to the own request of
\* Users.Get, Users.Delete or Users.SetNewPassword the call returns NotFound
\* naming the uid, and to that of Groups.Get or Groups.Delete NotFound
\* naming cn and ou; when the own request is refused with another error,
\* the translated error is returned as it is.
C18_NoSuchObjectIsNotFound ==
    (ret # Idle /\ ret.op \in NotFoundOps) =>
        /\ AnsweredNoSuchObject =>
            /\ ret.err.code = "NotFound" /\ ret.err.status = 404
            /\ ret.err.message =
                 IF OnGroup THEN <<"Group was not found", ret.args.cn, ret.args.ou>>
                 ELSE <<"User was not found", ret.args.uid>>
        /\ (OwnRequestSent /\ FaultAt(ret.args.fault, OwnTrip, "op")) =>
             ret.err = handleLdapError(ret.args.fault.text)

\* Users.SetNewPassword for a uid without entry was told so by the
\* directory.
C18_Witness ==
    /\ UserReturned("Users.SetNewPassword")
    /\ AnsweredNoSuchObject
    /\ ret.args.uid = UidOrder[2]
    /\ ret.err.code = "NotFound"

\* The filter of the call is one validateFilter turns down.
FilterInvalid ==
    \/ TrimSpace(ret.args.key) = ""
    \/ TrimSpaceValue(ret.args.value) = <<>>
    \/ ret.args.key \notin
         {userIdAttr, alternateUserIdAttr, CommonNameAttr, familyNameAttr,
          displayNameAttr, employeeNumberAttr, mailAttr, statusAttr}
\* The search of the call reached the directory, which answered without
\* entries.
AnsweredNoEntries ==
    /\ Attempted("search")
    /\ \/ FaultAt(ret.args.fault, 1, "empty")
       \/ /\ ret.args.fault.trip # 1
          /\ ~UserServer(ret.before, ret.sent[1]).failed
          /\ UserServer(ret.before, ret.sent[1]).entries = <<>>

\* C19: Users.Filter with a blank key or value or an unrecognised key fails
\* with BadRequest without contacting the directory; with a recognised key
\* and a value, an answer without entries yields success and an empty list
\* that is not nil.
C19_FilterValidationAndEmpty ==
    UserReturned("Users.Filter") =>
        /\ FilterInvalid =>
            /\ ret.err.code = "BadRequest" /\ ret.err.status = 400
            /\ ret.log = <<>>
            /\ users = ret.before
        /\ (~FilterInvalid /\ AnsweredNoEntries) =>
            /\ ret.err = NoErr
            /\ ret.result.list = <<>>
            /\ ~ret.result.isNil

\* A filter on a recognised key matched no user.
C19_Witness ==
    /\ UserReturned("Users.Filter")
    /\ ret.args.key = userIdAttr
    /\ AnsweredNoEntries
    /\ ret.err = NoErr
    /\ ret.result.list = <<>>

\* The uids of the list of users a call returned.
UidsOf(list) == {list[i].Uid : i \in 1..Len(list)}
\* The uids FilterByType returns for userType on the directory as it is: those
\* of the call that returned, of a call made now for the other types.
UidsOfType(userType) ==
    UidsOf(IF ret.args.userType = userType THEN ret.result.list
           ELSE UsersFilterByType(config, unitTesting, users, userType,
                                  NoFault).result.list)

\* C20 (as claimed): every user of the directory is returned by FilterByType
\* for exactly one of the three user types.
C20_TypesPartition ==
    (UserReturned("Users.FilterByType") /\ ret.err = NoErr) =>
        \A dn \in DOMAIN users :
            Cardinality({t \in {UserTypePersonal, UserTypeNPA, UserTypeBuilder} :
                            users[dn][userIdAttr] \in UidsOfType(t)}) = 1

(***************************************************************************)
(* The public calls of more than one round trip (AddMembers and            *)
(* RemoveMembers: four; Users.Create: two) and Users.Get, one at a time,   *)
(* with any step of any round trip refused or a search answered without    *)
(* entries.                                                                *)
(***************************************************************************)
StepKeyPool == {<<"g1", "ou1">>, <<"g2", "ou1">>, <<" ", "ou1">>, <<"g1", "ou9">>}
StepIdLists == {<<>>, <<<<"a">>>>, <<<<"a">>, <<"b">>>>}

CallGroupsAddMembers ==
    /\ ret = Idle
    /\ \E key \in StepKeyPool, memberIds \in StepIdLists, fault \in AllFaults :
        GroupReturns("Groups.AddMembers",
                     [cn |-> key[1], ou |-> key[2], memberIds |-> memberIds,
                      fault |-> fault],
                     AddMembers(config, unitTesting, groups, key[1], key[2],
                                memberIds, fault),
                     <<>>)

CallGroupsRemoveMembers ==
    /\ ret = Idle
    /\ \E key \in StepKeyPool, memberIds \in StepIdLists, fault \in AllFaults :
        GroupReturns("Groups.RemoveMembers",
                     [cn |-> key[1], ou |-> key[2], memberIds |-> memberIds,
                      fault |-> fault],
                     RemoveMembers(config, unitTesting, groups, key[1], key[2],
                                   memberIds, fault),
                     <<>>)

NextSteps ==
    \/ CallGroupsAddMembers
    \/ CallGroupsRemoveMembers
    \/ CallUsersCreate
    \/ CallUsersGet
    \/ Return

SpecSteps == InitUsers /\ [][NextSteps]_vars

\* The log of the call ends with the steps tail.
LogEndsWith(tail) ==
    /\ Len(ret.log) >= Len(tail)
    /\ SubSeq(ret.log, Len(ret.log) - Len(tail) + 1, Len(ret.log)) = tail
\* The step the fault of the call refuses was reached: the call dialled,
\* bound or sent an operation as many times as the fault's round trip.
FaultReached ==
    \/ ret.args.fault.step = "dial" /\ Attempts("dial") >= ret.args.fault.trip
    \/ ret.args.fault.step = "bind" /\ Attempts("bind") >= ret.args.fault.trip
    \/ ret.args.fault.step = "op" /\ OperationsIssued >= ret.args.fault.trip

\* C21: once a step of a public call fails (the configuration is
\* incomplete, or a dial, a bind or a protocol operation is refused) the
\* call issues no further dial, bind or operation: the failed step is the
\* last of its kind, only the deferred close follows a refused operation,
\* and the call returns an error.
C21_NoRetry ==
    ret # Idle =>
        /\ ~ConfigComplete => ret.log = <<>> /\ ret.err # NoErr
        /\ (FaultReached /\ ret.args.fault.step = "dial") =>
            /\ Attempts("dial") = ret.args.fault.trip
            /\ LogEndsWith(<<"dial">>)
            /\ ret.err = handleLdapError(ret.args.fault.text)
        /\ (FaultReached /\ ret.args.fault.step = "bind") =>
            /\ Attempts("bind") = ret.args.fault.trip
            /\ LogEndsWith(<<"bind">>)
            /\ ret.err = handleLdapError(ret.args.fault.text)
        /\ (FaultReached /\ ret.args.fault.step = "op") =>
            /\ OperationsIssued = ret.args.fault.trip
            /\ LogEndsWith(<<"close">>)
            /\ ret.log[Len(ret.log) - 1] \in ExecuteOps
            /\ ret.err = handleLdapError(ret.args.fault.text)
        /\ ret.err.code = "NotFound" =>
            /\ LogEndsWith(<<"search", "close">>)
            /\ ~Attempted("modify")
        /\ ret.err = NoErr => ~FaultReached

\* The group read of an AddMembers call, its third round trip, was refused
\* at the bind.
C21_Witness ==
    /\ ret # Idle
    /\ ret.op = "Groups.AddMembers"
    /\ ret.args.fault.step = "bind"
    /\ ret.args.fault.trip = 3
    /\ Attempts("bind") = 3
    /\ Attempts("search") = 2

(***************************************************************************)
(* Further properties of the user operations, on SpecUsers.                *)
(***************************************************************************)
\* C22 (as claimed): Users.Authenticate only validates the configuration,
\* dials and binds, succeeds exactly when the bind succeeds, and has closed
\* the connection it dialled by the time it returns.
C22_AuthenticateBindsAndReleases ==
    UserReturned("Users.Authenticate") =>
        /\ \A i \in 1..Len(ret.log) : ret.log[i] \in {"dial", "bind", "close"}
        /\ ret.err = NoErr <=>
             (Attempted("bind") /\ ~FaultAt(ret.args.fault, 1, "bind"))
        /\ users = ret.before
        /\ Attempted("dial") => LogEndsWith(<<"close">>)

(***************************************************************************)
(* The protocol of the client, on SpecExec.                                *)
(***************************************************************************)
\* C23: after NewClient and after every SetProtocol call the protocol of the
\* client is ldap or ldaps; a SetProtocol call with one of the two stores it
\* as given, with anything else it stores ldaps, and it changes no other
\* field of the configuration.
C23_ProtocolAlwaysValid ==
    /\ config.Protocol \in {"ldap", "ldaps"}
    /\ (ret # Idle /\ ret.op = "SetProtocol") =>
        /\ config.Protocol =
             IF ret.protocol \in {"ldap", "ldaps"} THEN ret.protocol ELSE "ldaps"
        /\ \A f \in DOMAIN config \ {"Protocol"} : config[f] = ret.before[f]

\* SetProtocol was called with an unknown protocol on a client that used
\* ldap.
C23_Witness ==
    /\ ret # Idle
    /\ ret.op = "SetProtocol"
    /\ ret.protocol = "LDAP"
    /\ ret.before.Protocol = "ldap"
    /\ config.Protocol = "ldaps"

QueuesSentinelAddition(mr) ==
    \E i \in 1..Len(mr.changes) :
        mr.changes[i].op = "add" /\ Sentinel \in Range(mr.changes[i].vals)
\* The members of the addressed group that the call was not asked to remove.
MembersToRemain ==
    MembersBefore \ {MemberDnOf(ret.memberIds[i]) : i \in 1..Len(ret.memberIds)}

LookupCameBackEmpty ==
    \/ /\ ret.op \in {"Groups.AddMembers", "Groups.RemoveMembers"}
       /\ FaultAt(ret.args.fault, 3, "empty")
       /\ Attempts("search") = 3
    \/ /\ ret.op = "Users.Get"
       /\ FaultAt(ret.args.fault, 1, "empty")
       /\ Attempts("search") = 1

MembershipReturned ==
    ret # Idle /\ ret.op \in {"Groups.AddMembers", "Groups.RemoveMembers"}
\* The group the call addresses.
GroupDnOf == getDN(config, ret.args.cn, ret.args.ou)
\* A round trip before the modify (the two lookups of the organizational
\* units, the group search) was refused.
ReadRefused == FaultReached /\ ret.args.fault.trip <= 3

\* C27: when the validation of cn and ou, a lookup of the organizational
\* units or the read of the group fails in AddMembers or RemoveMembers, the
\* call returns that error, sends no modify and leaves the groups of the
\* directory as they were.
C27_FailedReadSendsNoModify ==
    MembershipReturned =>
        /\ (TrimSpace(ret.args.cn) = "" \/ TrimSpace(ret.args.ou) = "") =>
            /\ ret.err.code = "BadRequest"
            /\ ret.err.message[1] = "MissingMandatoryParameter"
            /\ ret.log = <<>>
        /\ ReadRefused =>
            /\ ret.err = handleLdapError(ret.args.fault.text)
            /\ ~Attempted("modify")
        /\ (ConfigComplete /\ Attempted("search") /\ ~ReadRefused
            /\ ret.args.ou \notin Range(OrgUnits)) =>
            /\ ret.err.code = "BadRequest"
            /\ ret.err.message[1] = "Invalid organizational unit"
        /\ (Attempts("search") = 3 /\ ~ReadRefused /\ ret.args.fault.step # "empty"
            /\ GroupDnOf \notin DOMAIN ret.before) =>
            ret.err = NotFoundError(<<"Group was not found", ret.args.cn, ret.args.ou>>)
        /\ ~Attempted("modify") =>
            /\ ret.err # NoErr
            /\ groups = ret.before

\* The read of the group of a RemoveMembers call was refused.
C27_Witness ==
    /\ MembershipReturned
    /\ ret.op = "Groups.RemoveMembers"
    /\ FaultAt(ret.args.fault, 3, "op")
    /\ Attempts("search") = 3
    /\ ret.err.code = "Forbidden"
    /\ groups = ret.before

(***************************************************************************)
(* The search base of the groups.                                          *)
(***************************************************************************)
\* The search base the rule of resolution gives for (cn, ou).
ResolvedBase(cn, ou) ==
    IF ou = "" THEN <<<<"base", config.GroupBaseDN>>>>
    ELSE IF cn = "" THEN <<<<"ou", ou>>, <<"base", config.GroupBaseDN>>>>
    ELSE <<<<"cn", cn>>, <<"ou", ou>>, <<"base", config.GroupBaseDN>>>>

\* What GetAll, called in place of the Get that returned, would have returned.
GetAllInstead == GetAll(config, unitTesting, ret.before, NoFault, 1)

\* C28: the search base is cn=<cn>,ou=<ou>,<groupBase> when both are given,
\* ou=<ou>,<groupBase> when only ou is given and <groupBase> whenever ou is
\* empty, whatever cn is.  Hence a Get with a common name and no
\* organizational unit makes no organizational unit check (its one round
\* trip is the group search) and, when it succeeds, returns the groups
\* GetAll returns: every group of the directory.
C28_GetWithoutOuIsGetAll ==
    /\ \A key \in GetKeyPool :
            /\ getDN(config, key[1], key[2]) = ResolvedBase(key[1], key[2])
            /\ getSearchRequest(config, key[1], key[2], "groupOfUniqueNames").base
                    = ResolvedBase(key[1], key[2])
    /\ (GroupReturned("Get") /\ ret.ou = "" /\ ret.cn # "")
        => /\ Attempts("search") <= 1
           /\ Attempts("dial") <= 1
           /\ ret.err = NoErr
                => /\ GetAllInstead.err = NoErr
                   /\ ret.result = GetAllInstead.result
                   /\ {ret.result[i].Dn : i \in 1..Len(ret.result)} = DOMAIN groups

\* A Get of ("g1", "") returned two groups, one of them not named g1.
C28_Witness ==
    /\ GroupReturned("Get") /\ ret.cn = "g1" /\ ret.ou = ""
    /\ ret.err = NoErr
    /\ Len(ret.result) = 2
    /\ \E i \in 1..Len(ret.result) : ret.result[i].Cn = "g2"
    /\ Attempts("search") = 1


(***************************************************************************)
(* What the reconciliation of the members leaves in the group.             *)
(***************************************************************************)
\* The identifiers of the call that are not the sentinel's.
RequestedIds ==
    {ret.memberIds[i] : i \in 1..Len(ret.memberIds)} \ {noSuchUserGroupMemberCn}

\* C29: after a successful AddMembers on a group that had at least one
\* member, called with at least one identifier other than the sentinel's,
\* the sentinel is not a member of the group and the uppercased DN of every
\* requested identifier other than the sentinel's is a member.
C29_AddLeavesRequestedAndNoSentinel ==
    (ret # Idle /\ Succeeded("AddMembers") /\ MembersBefore # {}
        /\ RequestedIds # {})
        => /\ Sentinel \notin MembersAfter
           /\ \A id \in RequestedIds : MemberDnOf(id) \in MembersAfter

\* An AddMembers of one new identifier to the group holding the sentinel
\* alone succeeded.
C29_Witness ==
    /\ ret # Idle /\ Succeeded("AddMembers")
    /\ MembersBefore = {Sentinel}
    /\ ret.memberIds = <<<<"b">>>>
    /\ MembersAfter = {MemberDnOf(<<"b">>)}


\* The DNs the identifiers of the call stand for.
RequestedDns == {MemberDnOf(ret.memberIds[i]) : i \in 1..Len(ret.memberIds)}

\* The call that returned addressed a group the directory held.
OnHeldGroup == Addressed \in DOMAIN ret.before

\* C30: the reconciliation touches only what was asked for.  Whatever its
\* outcome, AddMembers removes no member other than the sentinel;
\* RemoveMembers removes no member whose identifier was not requested and
\* adds no member other than the sentinel; and both leave the set of groups
\* and the members of every group other than the one addressed as they were.
C30_ReconciliationTouchesOnlyRequested ==
    (ret # Idle /\ ret.op \in {"AddMembers", "RemoveMembers"})
        => /\ DOMAIN groups = DOMAIN ret.before
           /\ \A dn \in DOMAIN ret.before \ {Addressed} : groups[dn] = ret.before[dn]
           /\ (ret.op = "AddMembers" /\ OnHeldGroup)
                => RealMembers(MembersBefore) \subseteq MembersAfter
           /\ (ret.op = "RemoveMembers" /\ OnHeldGroup)
                => /\ (MembersBefore \ MembersAfter) \subseteq RequestedDns
                   /\ RealMembers(MembersAfter) \subseteq MembersBefore

\* A RemoveMembers of one of the two members of a group succeeded while the
\* directory held another group: the other member and the other group are
\* as they were.
C30_Witness ==
    /\ ret # Idle /\ Succeeded("RemoveMembers") /\ OnHeldGroup
    /\ Cardinality(DOMAIN ret.before) = 2
    /\ MembersBefore = {MemberDnOf(<<"a">>), MemberDnOf(<<"b">>)}
    /\ ret.memberIds = <<<<"a">>>>
    /\ MembersAfter = {MemberDnOf(<<"b">>)}

=============================================================================
